---------------------------- MODULE Spec2Model ----------------------------
(***************************************************************************)
(* A model of app.py, the Flask backend that proxies and aggregates title  *)
(* metadata from Jikan, IMDbAPI and TMDB behind a process-wide TTL cache.  *)
(*                                                                         *)
(* Python values are modelled as follows.  An optional value (None or a    *)
(* value) is a sequence of length at most one: None is << >> and a value   *)
(* x is <<x>>.  A dict is a function whose DOMAIN is its set of keys.  A   *)
(* character string that the code inspects (a title) is a sequence of      *)
(* one-character strings, so that lower() is computed and not assumed.     *)
(***************************************************************************)
EXTENDS Integers, Sequences, FiniteSets, TLC

VARIABLES
    cache,      \* the module-level dict `cache`: key -> [data, timestamp]
    now,        \* the value time.time() returns, in whole seconds
    ticks,      \* how often the clock has advanced (bounds the model)
    lastSet,    \* history: key -> the (data, time) of the latest set on it
    last,       \* the latest cache operation and what it returned
    world,      \* what the providers answer to the request being handled
    resp        \* the response of the latest request handler

vars == <<cache, now, ticks, lastSet, last, world, resp>>

(***************************************************************************)
(* Bounds of the model.                                                    *)
(***************************************************************************)
MaxTicks == 3

Keys == {"k1", "k2"}
Values == {"v1", "v2"}

(***************************************************************************)
(* Python's None and an optional value.                                    *)
(***************************************************************************)
None == << >>
Some(x) == <<x>>

(***************************************************************************)
(* Caching configuration.                                                  *)
(***************************************************************************)
CACHE_TTL == 3600

\* The clock advances by one second or by one second less than the TTL, so
\* that ages of exactly CACHE_TTL - 1, CACHE_TTL and CACHE_TTL + 1 occur.
TickSteps == {1, CACHE_TTL - 1}

\* The dict c without the key k (del c[k]).
DelKey(c, k) == [j \in (DOMAIN c) \ {k} |-> c[j]]

\* The dict c with c[k] = e.
PutKey(c, k, e) == [j \in (DOMAIN c) \cup {k} |-> IF j = k THEN e ELSE c[j]]

\* A faulty variant of IsFresh: the boundary age counts as valid.
IsFresh_inclusive(age) == age <= CACHE_TTL

\* The validity test of get_cached_data.
IsFresh(age) == age < CACHE_TTL

\* A faulty variant of ExpireEntry: expiry sweeps every stale entry, not only k's.
ExpireEntry_sweep(c, k, t) ==
    [j \in {i \in DOMAIN c : IsFresh(t - c[i].timestamp)} |-> c[j]]

\* What get_cached_data does to the dict on finding k's entry stale.
ExpireEntry(c, k, t) == DelKey(c, k)

\* get_cached_data(key) at time t on the dict c: the value returned and the
\* dict afterwards.
get_cached_data(c, key, t) ==
    IF key \in DOMAIN c
    THEN IF IsFresh(t - c[key].timestamp)
         THEN [ret |-> Some(c[key].data), cache |-> c]
         ELSE [ret |-> None, cache |-> ExpireEntry(c, key, t)]
    ELSE [ret |-> None, cache |-> c]

\* A faulty variant of set_cached_data: an existing entry keeps its old stamp.
set_cached_data_keepstamp(c, key, data, t) ==
    PutKey(c, key, [data |-> data,
                    timestamp |-> IF key \in DOMAIN c THEN c[key].timestamp ELSE t])

\* set_cached_data(key, data) at time t on the dict c: the dict afterwards.
set_cached_data(c, key, data, t) ==
    PutKey(c, key, [data |-> data, timestamp |-> t])

(***************************************************************************)
(* The cache on its own: gets and sets on a few keys while time passes.    *)
(***************************************************************************)
NoWorld == [kind |-> "none"]
NoResp == [kind |-> "none"]

InitCache ==
    /\ cache = << >>
    /\ now = 0
    /\ ticks = 0
    /\ lastSet = << >>
    /\ last = [op |-> "none", key |-> "k1", ret |-> None, found |-> "absent"]
    /\ world = NoWorld
    /\ resp = NoResp

Tick ==
    /\ ticks < MaxTicks
    /\ \E d \in TickSteps : now' = now + d
    /\ ticks' = ticks + 1
    /\ UNCHANGED <<cache, lastSet, last, world, resp>>

\* What an operation on key k finds in the dict at time t (an observation of
\* the model, not a value the code computes).
Found(c, k, t) ==
    IF k \notin DOMAIN c THEN "absent"
    ELSE IF t - c[k].timestamp < CACHE_TTL THEN "valid" ELSE "expired"

Get(k) ==
    LET r == get_cached_data(cache, k, now) IN
    /\ cache' = r.cache
    /\ last' = [op |-> "get", key |-> k, ret |-> r.ret,
                found |-> Found(cache, k, now)]
    /\ UNCHANGED <<now, ticks, lastSet, world, resp>>

Set(k, v) ==
    /\ cache' = set_cached_data(cache, k, v, now)
    /\ lastSet' = PutKey(lastSet, k, [data |-> v, at |-> now])
    /\ last' = [op |-> "set", key |-> k, ret |-> None,
                found |-> Found(cache, k, now)]
    /\ UNCHANGED <<now, ticks, world, resp>>

NextCache ==
    \/ Tick
    \/ \E k \in Keys : Get(k)
    \/ \E k \in Keys, v \in Values : Set(k, v)

SpecCache == InitCache /\ [][NextCache]_vars

(***************************************************************************)
(* Claims about the TTL cache, checked under SpecCache.                    *)
(***************************************************************************)

\* C1: after set(k, v) at time t with no later set on k, a get(k) at time
\* t' returns v if t' - t < TTL and returns absent if t' - t >= TTL, the
\* age of exactly TTL included.  lastSet records the latest set on each
\* key independently of the dict the code keeps.
C1_GetReturnsValueIffYoungerThanTTL ==
    [][\A k \in Keys :
          (Get(k) /\ k \in DOMAIN lastSet) =>
              last'.ret = IF now - lastSet[k].at < CACHE_TTL
                          THEN Some(lastSet[k].data)
                          ELSE None]_vars

\* A get at an age of exactly TTL has returned absent.
C1_Witness ==
    /\ last.op = "get"
    /\ last.key \in DOMAIN lastSet
    /\ now - lastSet[last.key].at = CACHE_TTL
    /\ last.ret = None

\* C2: expiry is lazy and local.  A get(k) that finds k's entry with
\* now - storedAt >= TTL removes exactly that entry; a get on a valid entry
\* or an absent key leaves the whole dict unchanged, stamps included; and
\* the entry of a key changes or disappears only in a get or a set on that
\* very key, so an expired entry stays until then.
C2_LazyLocalExpiry ==
    [][\A k \in Keys :
          /\ Get(k) =>
                cache' = IF k \in DOMAIN cache /\ now - cache[k].timestamp >= CACHE_TTL
                         THEN DelKey(cache, k)
                         ELSE cache
          /\ (k \in DOMAIN cache /\ (k \notin DOMAIN cache' \/ cache'[k] # cache[k]))
                => (Get(k) \/ \E v \in Values : Set(k, v))]_vars

\* A get has removed its own expired entry while the expired entry of
\* another key is still in the dict.
C2_Witness ==
    /\ last.op = "get"
    /\ last.found = "expired"
    /\ last.key \notin DOMAIN cache
    /\ \E j \in DOMAIN cache : j # last.key /\ now - cache[j].timestamp >= CACHE_TTL

\* C3: set(k, v2) overwrites unconditionally.  Whatever entry (valid,
\* expired or none) k has, after set(k, v2) at time t2 the entry of k is
\* v2 stamped t2 and the entries of the other keys are unchanged; a later
\* get(k) never returns a value other than the one set last.
C3_SetOverwritesAndRestamps ==
    [][\A k \in Keys :
          /\ \A v \in Values :
                Set(k, v) =>
                    /\ DOMAIN cache' = DOMAIN cache \cup {k}
                    /\ cache'[k] = [data |-> v, timestamp |-> now]
                    /\ \A j \in DOMAIN cache \ {k} : cache'[j] = cache[j]
          /\ (Get(k) /\ k \in DOMAIN lastSet /\ last'.ret # None) =>
                /\ last'.ret = Some(lastSet[k].data)
                /\ now - lastSet[k].at < CACHE_TTL]_vars

\* A set has replaced an expired entry by a different value, stamped now.
C3_Witness ==
    /\ last.op = "set"
    /\ last.found = "expired"
    /\ cache[last.key].timestamp = now
    /\ now >= CACHE_TTL

(***************************************************************************)
(* Provider calls.  A call made with requests.get either succeeds or       *)
(* raises: raise_for_status raises HTTPError for a 404 ("not_found") or    *)
(* another non-2xx status ("http_error"), the transport raises             *)
(* ConnectionError ("transport"); all three are RequestExceptions.  A      *)
(* "malformed" answer is a body the handler cannot process at all (for     *)
(* instance a JSON array where it calls .get): processing raises an        *)
(* exception that is no RequestException before any item is handled.       *)
(***************************************************************************)
RequestErrors == {"not_found", "http_error", "transport"}
Failures == RequestErrors \cup {"malformed"}
Outcomes == {"ok"} \cup Failures

\* The exception class a call with this outcome raises in the handler.
Raised(outcome) ==
    IF outcome \in RequestErrors THEN "RequestException"
    ELSE IF outcome = "malformed" THEN "Exception"
    ELSE "none"

(***************************************************************************)
(* Titles are strings the code lower-cases and compares.                   *)
(***************************************************************************)
UpperCase ==
    <<"A", "B", "C", "D", "E", "F", "G", "H", "I", "J", "K", "L", "M", "N",
      "O", "P", "Q", "R", "S", "T", "U", "V", "W", "X", "Y", "Z">>
LowerCase ==
    <<"a", "b", "c", "d", "e", "f", "g", "h", "i", "j", "k", "l", "m", "n",
      "o", "p", "q", "r", "s", "t", "u", "v", "w", "x", "y", "z">>
UpperToLower ==
    [c \in {UpperCase[i] : i \in DOMAIN UpperCase} |->
        LowerCase[CHOOSE i \in DOMAIN UpperCase : UpperCase[i] = c]]

\* str.lower()
Lower(s) ==
    [i \in DOMAIN s |-> IF s[i] \in DOMAIN UpperToLower THEN UpperToLower[s[i]] ELSE s[i]]

\* Python's `a or b` on optional strings: a unless it is None or empty.
PyOr(a, b) == IF a # None /\ a[1] # << >> THEN a ELSE b

\* d.get('title', '') of a provider item whose 'title' key may be absent.
GetOrEmpty(opt) == IF opt = None THEN << >> ELSE opt[1]

(***************************************************************************)
(* Bounds and input domains of the unified search.                         *)
(***************************************************************************)
MaxItems == 2
MaxPieces == 3
MaxLinks == 2

SeqsUpTo(S, n) == UNION {[1..m -> S] : m \in 0..n}

\* An Anime-Catalog (Jikan) item: both title fields may be null or absent.
JikanItemFields ==
    [title_english : {None, Some(<<"A", "b">>)}, title : {None, Some(<<"a", "b">>)}]

\* A General-Title (IMDbAPI) item: the title key and the titleType text may
\* be absent; "tvEpisode" stands for the tags outside the allow-list.
ImdbItemFields ==
    [title : {None, Some(<<"a", "B">>), Some(<<"B">>)},
     titleType : {None, Some("movie"), Some("tvSeries"), Some("tvEpisode")}]

\* The payloads of at most n items.  The items carry their provider ids:
\* here their positions.  These items have no external links (the key is
\* absent or the list is empty); the items with links are LinkedJikanItems
\* and LinkedImdbItems.
JikanPayloads(n) ==
    {[i \in DOMAIN f |-> [mal_id |-> i, title_english |-> f[i].title_english,
                          title |-> f[i].title, external |-> << >>]] :
        f \in SeqsUpTo(JikanItemFields, n)}

ImdbPayloads(n) ==
    {[i \in DOMAIN f |-> [id |-> i, title |-> f[i].title, titleType |-> f[i].titleType,
                          externalLinks |-> << >>]] :
        f \in SeqsUpTo(ImdbItemFields, n)}

Answers(payloads) ==
    {[outcome |-> "ok", items |-> p] : p \in payloads}
        \cup {[outcome |-> o, items |-> << >>] : o \in Failures}

(***************************************************************************)
(* The identifier extraction: the loops over an item's external links and  *)
(* the two regular expressions.  A URL is a sequence of one-character      *)
(* strings, so that the search for a pattern is computed.                  *)
(***************************************************************************)
SegTitle == <<"t", "i", "t", "l", "e", "/">>
IdPrefix == <<"t", "t">>
SegMovie == <<"/", "m", "o", "v", "i", "e", "/">>
SegTv == <<"/", "t", "v", "/">>
Digits == {"0", "1", "2", "3", "4", "5", "6", "7", "8", "9"}

\* The text p stands in s at position i.
MatchAt(s, i, p) == i + Len(p) - 1 <= Len(s) /\ SubSeq(s, i, i + Len(p) - 1) = p

\* \d+ is greedy: the longest run of digits of s from position i on.
RECURSIVE DigitRun(_, _)
DigitRun(s, i) ==
    IF i <= Len(s) /\ s[i] \in Digits THEN <<s[i]>> \o DigitRun(s, i + 1) ELSE << >>

Min(S) == CHOOSE x \in S : \A y \in S : x <= y

\* A faulty variant of ImdbIdMatch: the id is taken without the title/ segment.
ImdbIdMatch_anywhere(url) ==
    LET hits == {i \in 1..Len(url) :
                    MatchAt(url, i, IdPrefix) /\ DigitRun(url, i + Len(IdPrefix)) # << >>}
    IN  IF hits = {} THEN None
        ELSE Some(IdPrefix \o DigitRun(url, Min(hits) + Len(IdPrefix)))

\* re.search(r'title\/(tt\d+)', url): group(1) of the leftmost match, or
\* None when there is no match.
ImdbIdMatch(url) ==
    LET lead == SegTitle \o IdPrefix
        hits == {i \in 1..Len(url) :
                    MatchAt(url, i, lead) /\ DigitRun(url, i + Len(lead)) # << >>}
    IN  IF hits = {} THEN None
        ELSE Some(IdPrefix \o DigitRun(url, Min(hits) + Len(lead)))

\* re.search(r'\/(movie|tv)\/(\d+)', url): group(2) of the leftmost match,
\* or None when there is no match.
TmdbIdMatch(url) ==
    LET hit(i, seg) == MatchAt(url, i, seg) /\ DigitRun(url, i + Len(seg)) # << >>
        hits == {i \in 1..Len(url) : \E seg \in {SegMovie, SegTv} : hit(i, seg)}
    IN  IF hits = {} THEN None
        ELSE LET i == Min(hits)
                 seg == CHOOSE g \in {SegMovie, SegTv} : hit(i, g)
             IN  Some(DigitRun(url, i + Len(seg)))

\* `link.get('url')` as a condition: the url is there and not empty.
HasUrl(link) == link.url # None /\ link.url[1] # << >>

\* if match: imdb_id = match.group(1)
KeepMatch(id, match) == IF match # None THEN match ELSE id

\* The loop over item['external'] of a Jikan item from link i on; ids are
\* the values of imdb_id and tmdb_id so far.
RECURSIVE ExtractJikanIds(_, _, _)
ExtractJikanIds(external, i, ids) ==
    IF i > Len(external) THEN ids
    ELSE LET ext == external[i] IN
         IF ext.name = "IMDb" /\ HasUrl(ext)
         THEN ExtractJikanIds(external, i + 1,
                  [ids EXCEPT !.imdb_id = KeepMatch(@, ImdbIdMatch(ext.url[1]))])
         ELSE IF ext.name = "TMDB" /\ HasUrl(ext)
         THEN ExtractJikanIds(external, i + 1,
                  [ids EXCEPT !.tmdb_id = KeepMatch(@, TmdbIdMatch(ext.url[1]))])
         ELSE ExtractJikanIds(external, i + 1, ids)

\* The loop over item['externalLinks'] of an IMDbAPI item from link i on.
RECURSIVE ExtractTmdbId(_, _, _)
ExtractTmdbId(links, i, id) ==
    IF i > Len(links) THEN id
    ELSE LET link == links[i] IN
         IF link.platform = "The Movie Database" /\ HasUrl(link)
         THEN ExtractTmdbId(links, i + 1, KeepMatch(id, TmdbIdMatch(link.url[1])))
         ELSE ExtractTmdbId(links, i + 1, id)

(***************************************************************************)
(* Items with external links.                                              *)
(***************************************************************************)
\* The pieces the URLs of the external links are made of, and the URLs of
\* at most n pieces.
UrlPieces ==
    {SegTitle, IdPrefix, <<"1", "2">>, <<"7">>, SegMovie, SegTv, <<"x">>,
     <<"m", "o", "v", "i", "e", "/">>}

RECURSIVE Join(_)
Join(pieces) == IF pieces = << >> THEN << >> ELSE Head(pieces) \o Join(Tail(pieces))

Urls(n) == {Join(f) : f \in SeqsUpTo(UrlPieces, n)}

\* A few URLs of each kind for the items that hold several links.
UrlTitle12 == <<"h", "/">> \o SegTitle \o IdPrefix \o <<"1", "2">>
UrlTitle7 == <<"h", "/">> \o SegTitle \o IdPrefix \o <<"7">>
UrlMovie12 == <<"h">> \o SegMovie \o <<"1", "2">>
UrlTv7 == <<"h">> \o SegTv \o <<"7">>
SomeUrls == {None, Some(<< >>), Some(<<"h", "/", "x">>), Some(UrlTitle12), Some(UrlTitle7),
             Some(UrlMovie12), Some(UrlTv7)}

\* A Jikan item with external links: one link with any URL of at most nf
\* pieces, or at most nl links with the URLs above.
LinkedJikanItems(nf, nl) ==
    {[mal_id |-> 1, title_english |-> None, title |-> Some(<<"a", "b">>),
      external |-> <<[name |-> p, url |-> Some(u)]>>] :
        p \in {"IMDb", "TMDB"}, u \in Urls(nf)}
    \cup {[mal_id |-> 1, title_english |-> None, title |-> Some(<<"a", "b">>),
           external |-> x] :
        x \in SeqsUpTo([name : {"IMDb", "TMDB", "Wikipedia"}, url : SomeUrls], nl)}

\* An IMDbAPI item with external links, likewise.
LinkedImdbItems(nf, nl) ==
    {[id |-> 1, title |-> Some(<<"B">>), titleType |-> Some("movie"),
      externalLinks |-> <<[platform |-> "The Movie Database", url |-> Some(u)]>>] :
        u \in Urls(nf)}
    \cup {[id |-> 1, title |-> Some(<<"B">>), titleType |-> Some("movie"),
           externalLinks |-> x] :
        x \in SeqsUpTo([platform : {"The Movie Database", "Wikipedia"},
                        url : SomeUrls \ {Some(UrlTitle7)}], nl)}

(***************************************************************************)
(* unified_search                                                          *)
(***************************************************************************)

\* The exception classes the two try blocks of unified_search catch.
SearchCaught_requestOnly == {"RequestException"}

SearchCaught == {"RequestException", "Exception"}

\* The tags of the allow-list.
AllowedTypes == {"movie", "tvSeries", "tvMiniSeries", "tvMovie"}

\* A faulty variant of IsAllowedType: no filter.
IsAllowedType_all(tag) == TRUE

\* title_type in ['movie', 'tvSeries', 'tvMiniSeries', 'tvMovie']
IsAllowedType(tag) == tag # None /\ tag[1] \in AllowedTypes

\* The result entry appended for a Jikan item.
JikanResult(item) ==
    LET ids == ExtractJikanIds(item.external, 1, [imdb_id |-> None, tmdb_id |-> None]) IN
    [source |-> "Jikan", content_type |-> Some("anime"),
     title |-> PyOr(item.title_english, item.title), id |-> item.mal_id,
     imdb_id |-> ids.imdb_id, tmdb_id |-> ids.tmdb_id]

\* The result entry appended for an IMDbAPI item.
ImdbResult(item) ==
    [source |-> "IMDbAPI", content_type |-> item.titleType,
     title |-> item.title, id |-> item.id,
     tmdb_id |-> ExtractTmdbId(item.externalLinks, 1, None)]

\* The Jikan try block: the entries appended and the exception raised.
SearchJikan(answer) ==
    IF answer.outcome = "ok"
    THEN [results |-> [i \in DOMAIN answer.items |-> JikanResult(answer.items[i])],
          exc |-> "none"]
    ELSE [results |-> << >>, exc |-> Raised(answer.outcome)]

\* any(res.get('title', '').lower() == item.get('title', '').lower()
\*     and res.get('source') == 'Jikan' for res in results), from entry i on:
\* "yes", "no", or "raise" when an entry's title is None (None has no lower).
RECURSIVE is_duplicate_from_jikan(_, _, _)
is_duplicate_from_jikan(results, i, item) ==
    IF i > Len(results) THEN "no"
    ELSE IF results[i].title = None THEN "raise"
    ELSE IF /\ Lower(results[i].title[1]) = Lower(GetOrEmpty(item.title))
            /\ results[i].source = "Jikan"
         THEN "yes"
         ELSE is_duplicate_from_jikan(results, i + 1, item)

\* A faulty variant of MergeImdbItem: a duplicate replaces the Jikan entries it matches.
MergeImdbItem_replace(results, entry, dup) ==
    IF dup
    THEN Append(SelectSeq(results,
                          LAMBDA r : ~(r.title # None /\ entry.title # None
                                       /\ Lower(r.title[1]) = Lower(entry.title[1]))),
                entry)
    ELSE Append(results, entry)

\* A faulty variant of MergeImdbItem: the entry is put in front.
MergeImdbItem_front(results, entry, dup) ==
    IF dup THEN results ELSE <<entry>> \o results

\* if not is_duplicate_from_jikan: results.append({...})
MergeImdbItem(results, entry, dup) ==
    IF dup THEN results ELSE Append(results, entry)

\* The loop over imdb_data['results'] from item i on.
RECURSIVE ImdbLoop(_, _, _)
ImdbLoop(items, i, results) ==
    IF i > Len(items) THEN [results |-> results, exc |-> "none"]
    ELSE IF ~IsAllowedType(items[i].titleType) THEN ImdbLoop(items, i + 1, results)
    ELSE LET d == is_duplicate_from_jikan(results, 1, items[i]) IN
         IF d = "raise"
         THEN [results |-> results, exc |-> "Exception"]
         ELSE ImdbLoop(items, i + 1,
                       MergeImdbItem(results, ImdbResult(items[i]), d = "yes"))

\* The IMDbAPI try block, entered with the entries collected so far.
SearchImdb(answer, results) ==
    IF answer.outcome = "ok"
    THEN ImdbLoop(answer.items, 1, results)
    ELSE [results |-> results, exc |-> Raised(answer.outcome)]

\* A response of a handler that an exception left through: Flask answers 500.
Crash(calls) == [kind |-> "crash", status |-> 500, results |-> << >>, calls |-> calls]

\* unified_search on the request and provider answers w.
unified_search(w) ==
    IF w.query = None
    THEN [kind |-> "missing_query", status |-> 400, results |-> << >>, calls |-> << >>]
    ELSE LET j == SearchJikan(w.jikan) IN
         IF j.exc \notin {"none"} \cup SearchCaught
         THEN Crash(<<"jikan_search">>)
         ELSE IF ~w.token
         THEN [kind |-> "results", status |-> 200, results |-> j.results,
               calls |-> <<"jikan_search">>]
         ELSE LET m == SearchImdb(w.imdb, j.results) IN
              IF m.exc \notin {"none"} \cup SearchCaught
              THEN Crash(<<"jikan_search", "imdb_search">>)
              ELSE [kind |-> "results", status |-> 200, results |-> m.results,
                    calls |-> <<"jikan_search", "imdb_search">>]

(***************************************************************************)
(* One unified search request: the query, the configuration and what the   *)
(* two providers answer are drawn at the start; the handler is stateless.  *)
(***************************************************************************)
SearchWorlds(n) ==
    {[kind |-> "search", query |-> Some("q"), token |-> TRUE, jikan |-> j, imdb |-> m] :
        j \in Answers(JikanPayloads(n)), m \in Answers(ImdbPayloads(n))}
    \cup {[kind |-> "search", query |-> Some("q"), token |-> FALSE, jikan |-> j,
           imdb |-> [outcome |-> "ok", items |-> << >>]] : j \in Answers(JikanPayloads(n))}
    \cup {[kind |-> "search", query |-> None, token |-> TRUE,
           jikan |-> [outcome |-> "ok", items |-> << >>],
           imdb |-> [outcome |-> "ok", items |-> << >>]]}

\* The requests whose single item holds external links.
LinkWorlds(nf, nl) ==
    {[kind |-> "search", query |-> Some("q"), token |-> FALSE,
      jikan |-> [outcome |-> "ok", items |-> <<it>>],
      imdb |-> [outcome |-> "ok", items |-> << >>]] : it \in LinkedJikanItems(nf, nl)}
    \cup {[kind |-> "search", query |-> Some("q"), token |-> TRUE,
           jikan |-> [outcome |-> "ok", items |-> << >>],
           imdb |-> [outcome |-> "ok", items |-> <<it>>]] : it \in LinkedImdbItems(nf, nl)}

InitSearch ==
    /\ cache = << >>
    /\ now = 0
    /\ ticks = 0
    /\ lastSet = << >>
    /\ last = [op |-> "none", key |-> "k1", ret |-> None, found |-> "absent"]
    /\ \/ world \in SearchWorlds(MaxItems)
       \/ world \in LinkWorlds(MaxPieces, MaxLinks)
    /\ resp = NoResp

UnifiedSearch ==
    /\ resp' = unified_search(world)
    /\ UNCHANGED <<cache, now, ticks, lastSet, last, world>>

NextSearch == UnifiedSearch

SpecSearch == InitSearch /\ [][NextSearch]_vars

(***************************************************************************)
(* Claims about the unified search, checked under SpecSearch.              *)
(***************************************************************************)

\* A search with a query has been handled.
SearchHandled == world.kind = "search" /\ resp.kind # "none" /\ world.query # None

\* The entries of one source in a result set, in order.
EntriesOf(results, source) == SelectSeq(results, LAMBDA r : r.source = source)

IdsOf(entries) == [i \in DOMAIN entries |-> entries[i].id]

MalIdsOf(items) == [i \in DOMAIN items |-> items[i].mal_id]

\* The provider items that carry an allow-listed tag, in order.
AllowListed(items) ==
    SelectSeq(items, LAMBDA it : it.titleType \in
                  {Some("movie"), Some("tvSeries"), Some("tvMiniSeries"), Some("tvMovie")})

\* C4: a unified search with a non-empty query answers with a success for
\* every combination of provider outcomes (success, HTTP error, transport
\* failure, malformed payload); if both providers fail the result set is
\* empty, and if exactly one fails the result set holds the items of the
\* other provider (for General-Title: its allow-listed items).
C4_SearchSurvivesProviderFailure ==
    (SearchHandled /\ world.token) =>
        LET jFail == world.jikan.outcome # "ok"
            mFail == world.imdb.outcome # "ok"
        IN  /\ resp.status = 200
            /\ (jFail /\ mFail) => resp.results = << >>
            /\ (~jFail /\ mFail) =>
                  /\ IdsOf(resp.results) = MalIdsOf(world.jikan.items)
                  /\ \A i \in DOMAIN resp.results : resp.results[i].source = "Jikan"
            /\ (jFail /\ ~mFail) =>
                  /\ IdsOf(resp.results) = IdsOf(AllowListed(world.imdb.items))
                  /\ \A i \in DOMAIN resp.results : resp.results[i].source = "IMDbAPI"

\* C5: an allow-listed General-Title item is missing from the result set if
\* and only if its title, compared case-insensitively, equals the title of
\* an Anime-Catalog item collected in the same request.
C5_DroppedIffDuplicateTitle ==
    (SearchHandled /\ world.token /\ world.imdb.outcome = "ok") =>
        \A i \in DOMAIN AllowListed(world.imdb.items) :
            LET item == AllowListed(world.imdb.items)[i]
                kept == \E n \in DOMAIN resp.results :
                            /\ resp.results[n].source = "IMDbAPI"
                            /\ resp.results[n].id = item.id
                twin == \E n \in DOMAIN resp.results :
                            /\ resp.results[n].source = "Jikan"
                            /\ resp.results[n].title # None
                            /\ Lower(resp.results[n].title[1]) = Lower(GetOrEmpty(item.title))
            IN  ~kept <=> twin

C7_AnimeEntriesFirst ==
    SearchHandled =>
        \A i, j \in DOMAIN resp.results :
            (resp.results[i].source = "IMDbAPI" /\ resp.results[j].source = "Jikan")
                => j < i

\* A result set holds entries of both sources.
C7_Witness ==
    /\ SearchHandled
    /\ EntriesOf(resp.results, "Jikan") # << >>
    /\ EntriesOf(resp.results, "IMDbAPI") # << >>

FirstMatchId(links, IsTarget(_), Match(_)) ==
    LET hits == {i \in DOMAIN links :
                    IsTarget(links[i]) /\ HasUrl(links[i]) /\ Match(links[i].url[1]) # None}
    IN  IF hits = {} THEN None ELSE Match(links[Min(hits)].url[1])

\* C19: the id extracted for a platform from the link list of an item is the
\* one of the first link of that platform whose URL matches the pattern;
\* later matching links do not replace it, links of other platforms and
\* links whose URL does not match contribute nothing, and the id is absent
\* when no link matches.
C19_FirstMatchingLinkWins ==
    SearchHandled =>
        \A n \in DOMAIN resp.results :
            LET e == resp.results[n] IN
            /\ e.source = "Jikan" =>
                  LET links == world.jikan.items[e.id].external IN
                  /\ e.imdb_id = FirstMatchId(links, LAMBDA l : l.name = "IMDb", ImdbIdMatch)
                  /\ e.tmdb_id = FirstMatchId(links, LAMBDA l : l.name = "TMDB", TmdbIdMatch)
            /\ e.source = "IMDbAPI" =>
                  e.tmdb_id = FirstMatchId(world.imdb.items[e.id].externalLinks,
                                           LAMBDA l : l.platform = "The Movie Database",
                                           TmdbIdMatch)

\* x is a non-empty run of digits.
IsDigits(x) == x # << >> /\ \A k \in DOMAIN x : x[k] \in Digits

\* The text p stands somewhere in u and no digit follows it there.
StandsIn(u, p) ==
    \E i \in 1..Len(u) :
        /\ MatchAt(u, i, p)
        /\ i + Len(p) <= Len(u) => u[i + Len(p)] \notin Digits

\* The id got from the URL u is right for the title pattern: there is one
\* exactly if `title/tt` and a digit stand in u, and it is tt and the digits
\* that follow a `title/` in u.
RightTitleId(u, id) ==
    /\ id # None <=> \E i \in 1..Len(u), d \in Digits :
                         MatchAt(u, i, <<"t", "i", "t", "l", "e", "/", "t", "t", d>>)
    /\ id # None =>
          /\ Len(id[1]) > 2
          /\ SubSeq(id[1], 1, 2) = <<"t", "t">>
          /\ IsDigits(SubSeq(id[1], 3, Len(id[1])))
          /\ StandsIn(u, <<"t", "i", "t", "l", "e", "/">> \o id[1])

\* The id got from the URL u is right for the movie/tv pattern.
RightMovieTvId(u, id) ==
    /\ id # None <=> \E i \in 1..Len(u), d \in Digits :
                         \/ MatchAt(u, i, <<"/", "m", "o", "v", "i", "e", "/", d>>)
                         \/ MatchAt(u, i, <<"/", "t", "v", "/", d>>)
    /\ id # None =>
          /\ IsDigits(id[1])
          /\ \/ StandsIn(u, <<"/", "m", "o", "v", "i", "e", "/">> \o id[1])
             \/ StandsIn(u, <<"/", "t", "v", "/">> \o id[1])

\* C20: from an item with one link of the target platform, a URL that holds
\* `title/` followed by tt and digits yields that id (tt and the digits), a
\* URL that holds `/movie/` or `/tv/` followed by digits yields the digits,
\* and a URL with neither structure yields absent; the search answers with a
\* success holding the item in every case.
C20_ExtractorPatterns ==
    (SearchHandled /\ world.jikan.outcome = "ok" /\ world.imdb.outcome = "ok") =>
        /\ \A k \in DOMAIN world.jikan.items :
              LET links == world.jikan.items[k].external IN
              (Len(links) = 1 /\ HasUrl(links[1])) =>
                  /\ resp.status = 200
                  /\ resp.results[k].id = k
                  /\ links[1].name = "IMDb" =>
                        RightTitleId(links[1].url[1], resp.results[k].imdb_id)
                  /\ links[1].name = "TMDB" =>
                        RightMovieTvId(links[1].url[1], resp.results[k].tmdb_id)
        /\ \A k \in DOMAIN world.imdb.items :
              LET links == world.imdb.items[k].externalLinks IN
              (Len(links) = 1 /\ HasUrl(links[1])
                  /\ links[1].platform = "The Movie Database") =>
                  /\ resp.status = 200
                  /\ \E n \in DOMAIN resp.results :
                        /\ resp.results[n].source = "IMDbAPI"
                        /\ resp.results[n].id = k
                        /\ RightMovieTvId(links[1].url[1], resp.results[n].tmdb_id)

\* The URL title/tt12 of an IMDb link has given the id tt12.
C20_Witness ==
    /\ SearchHandled
    /\ Len(world.jikan.items) = 1
    /\ Len(world.jikan.items[1].external) = 1
    /\ world.jikan.items[1].external[1] =
          [name |-> "IMDb", url |-> Some(<<"t", "i", "t", "l", "e", "/", "t", "t", "1", "2">>)]
    /\ resp.results[1].imdb_id = Some(<<"t", "t", "1", "2">>)

(***************************************************************************)
(* unified_detail                                                          *)
(***************************************************************************)
Sources == {"Jikan", "IMDbAPI", "TMDB", "Other"}
ItemIds == {"42"}

\* The query argument content_type_param: absent, valid, or something else.
ContentTypeParams == {None, Some("movie"), Some("tv"), Some("person")}

\* What the primary call of a branch answers.  has_data is whether the Jikan
\* body has a non-empty 'data' member.
PrimaryAnswers(source) ==
    {[outcome |-> o, has_data |-> FALSE] : o \in Failures}
        \cup {[outcome |-> "ok", has_data |-> b] :
                b \in IF source = "Jikan" THEN BOOLEAN ELSE {TRUE}}

\* What the TMDB external_ids call answers.
CrossAnswers ==
    {[outcome |-> o, imdb_id |-> None] : o \in Failures}
        \cup {[outcome |-> "ok", imdb_id |-> x] : x \in {None, Some("tt7")}}

Unasked == [outcome |-> "unasked", has_data |-> FALSE]
UnaskedCross == [outcome |-> "unasked", imdb_id |-> None]

\* A detail request with the answers of the calls its branch can make.
DetailWorlds ==
    UNION {{[kind |-> "detail", source |-> s, id |-> i, ctp |-> None, primary |-> a,
              cross |-> UnaskedCross] : i \in ItemIds, a \in PrimaryAnswers(s)} :
            s \in {"Jikan", "IMDbAPI"}}
    \cup {[kind |-> "detail", source |-> "TMDB", id |-> i, ctp |-> t, primary |-> a,
           cross |-> UnaskedCross] :
        i \in ItemIds, t \in {Some("movie"), Some("tv")},
        a \in {x \in PrimaryAnswers("TMDB") : x.outcome # "ok"}}
    \cup {[kind |-> "detail", source |-> "TMDB", id |-> i, ctp |-> t,
           primary |-> [outcome |-> "ok", has_data |-> TRUE], cross |-> x] :
        i \in ItemIds, t \in {Some("movie"), Some("tv")}, x \in CrossAnswers}
    \cup {[kind |-> "detail", source |-> "TMDB", id |-> i, ctp |-> t,
           primary |-> Unasked, cross |-> UnaskedCross] :
        i \in ItemIds, t \in {None, Some("person")}}
    \cup {[kind |-> "detail", source |-> "Other", id |-> i, ctp |-> None,
           primary |-> Unasked, cross |-> UnaskedCross] : i \in ItemIds}

\* A faulty variant of DetailKey: the key leaves the source tag out.
DetailKey_noSource(source_type, item_id) == <<"unified_detail", item_id>>

\* cache_key = f"unified_detail_{source_type}_{item_id}": the text made of
\* the two parts.  No source tag and no id of the model holds an underscore,
\* so two different pairs never give the same text.
DetailKey(source_type, item_id) == <<"unified_detail", source_type, item_id>>

\* `if cached_info:` on what get_cached_data returned; a stored detail
\* record is a non-empty dict.
PyTruthy(ret) == ret # None

\* The exception classes each try block of unified_detail catches.
JikanDetailCaught == {"RequestException"}
ImdbDetailCaught == {"RequestException"}
TmdbDetailCaught == {"RequestException", "Exception"}

\* A faulty variant of CrossCaught: the external_ids call is not guarded.
CrossCaught_none == {}

\* The inner try block around the external_ids call.
CrossCaught == {"RequestException"}

\* An error response returned from inside a branch.
ErrorResp(kind, status, msg, calls) ==
    [kind |-> kind, status |-> status, body |-> None, msg |-> msg, calls |-> calls]

\* A branch that ran to its end with detail_data (None or a record).
Fetched(detail_data, calls) ==
    [kind |-> "fetched", status |-> 0, body |-> detail_data, msg |-> "", calls |-> calls]

\* The Jikan branch.
JikanDetail(w) ==
    LET exc == Raised(w.primary.outcome)
        calls == <<"jikan_detail">>
    IN  IF exc = "none"
        THEN IF w.primary.has_data
             THEN Fetched(Some([source |-> "Jikan", content_type |-> Some("anime"),
                                id |-> w.id, imdb_id |-> None]), calls)
             ELSE Fetched(None, calls)
        ELSE IF exc \in JikanDetailCaught
        THEN ErrorResp("jikan_failed", 500, w.primary.outcome, calls)
        ELSE ErrorResp("crash", 500, "", calls)

\* A faulty variant of ImdbDetail: a failed fetch is followed by a fetch from TMDB.
ImdbDetail_fallback(w) ==
    LET exc == Raised(w.primary.outcome) IN
    IF exc = "none"
    THEN Fetched(Some([source |-> "IMDbAPI", content_type |-> None,
                       id |-> w.id, imdb_id |-> Some(w.id)]), <<"imdb_detail">>)
    ELSE ErrorResp("imdb_failed", 500, w.primary.outcome, <<"imdb_detail", "tmdb_detail">>)

\* The IMDbAPI branch.  Both arms of the TMDB_API_KEY test return status 500.
ImdbDetail(w) ==
    LET exc == Raised(w.primary.outcome)
        calls == <<"imdb_detail">>
    IN  IF exc = "none"
        THEN Fetched(Some([source |-> "IMDbAPI", content_type |-> None,
                           id |-> w.id, imdb_id |-> Some(w.id)]), calls)
        ELSE IF exc \in ImdbDetailCaught
        THEN ErrorResp("imdb_failed", 500, w.primary.outcome, calls)
        ELSE ErrorResp("crash", 500, "", calls)

\* The outer except clauses of the TMDB branch, for an exception of class exc.
TmdbExcept(exc, msg, calls) ==
    IF exc = "RequestException" /\ exc \in TmdbDetailCaught
    THEN ErrorResp("tmdb_failed", 500, msg, calls)
    ELSE IF exc \in TmdbDetailCaught
    THEN ErrorResp("tmdb_unexpected", 500, msg, calls)
    ELSE ErrorResp("crash", 500, "", calls)

\* A faulty variant of TmdbDetail: the external_ids call is made whatever the
\* primary call did.
TmdbDetail_eagerCross(w) ==
    IF w.ctp = None \/ w.ctp \notin {Some("movie"), Some("tv")}
    THEN ErrorResp("bad_content_type", 400, "", << >>)
    ELSE LET exc == Raised(w.primary.outcome)
             calls == <<"tmdb_detail", "tmdb_external_ids">>
             cexc == Raised(w.cross.outcome)
         IN  IF exc # "none" THEN TmdbExcept(exc, w.primary.outcome, calls)
             ELSE IF cexc # "none" /\ cexc \notin CrossCaught
             THEN TmdbExcept(cexc, w.cross.outcome, calls)
             ELSE Fetched(Some([source |-> "TMDB", content_type |-> w.ctp, id |-> w.id,
                                imdb_id |-> IF cexc = "none" THEN w.cross.imdb_id
                                            ELSE None]), calls)

\* The TMDB branch.  The body of the primary call is first used when the
\* record is built, after the external_ids call: a body that cannot be
\* processed ends in the except Exception clause whatever that call answers.
TmdbDetail(w) ==
    IF w.ctp = None \/ w.ctp \notin {Some("movie"), Some("tv")}
    THEN ErrorResp("bad_content_type", 400, "", << >>)
    ELSE LET exc == Raised(w.primary.outcome) IN
         IF exc = "Exception"
         THEN TmdbExcept(exc, w.primary.outcome, <<"tmdb_detail", "tmdb_external_ids">>)
         ELSE IF exc # "none"
         THEN TmdbExcept(exc, w.primary.outcome, <<"tmdb_detail">>)
         ELSE LET calls == <<"tmdb_detail", "tmdb_external_ids">>
                  cexc == Raised(w.cross.outcome)
              IN  IF cexc # "none" /\ cexc \notin CrossCaught
                  THEN TmdbExcept(cexc, w.cross.outcome, calls)
                  ELSE Fetched(Some([source |-> "TMDB", content_type |-> w.ctp,
                                     id |-> w.id,
                                     imdb_id |-> IF cexc = "none" THEN w.cross.imdb_id
                                                 ELSE None]), calls)

\* unified_detail for the request w on the dict c at time t: the response
\* and the dict afterwards.
unified_detail(c, t, w) ==
    LET key == DetailKey(w.source, w.id)
        g == get_cached_data(c, key, t)
    IN  IF PyTruthy(g.ret)
        THEN [resp |-> [kind |-> "cached", status |-> 200, body |-> g.ret, msg |-> "",
                        calls |-> << >>],
              cache |-> g.cache]
        ELSE LET b == CASE w.source = "Jikan" -> JikanDetail(w)
                        [] w.source = "IMDbAPI" -> ImdbDetail(w)
                        [] w.source = "TMDB" -> TmdbDetail(w)
                        [] OTHER -> ErrorResp("bad_source", 400, "", << >>)
             IN  IF b.kind # "fetched"
                 THEN [resp |-> b, cache |-> g.cache]
                 ELSE IF b.body # None
                 THEN [resp |-> [b EXCEPT !.kind = "detail", !.status = 200],
                       cache |-> set_cached_data(g.cache, key, b.body[1], t)]
                 ELSE [resp |-> ErrorResp("details_not_found", 404, "", b.calls),
                       cache |-> g.cache]

(***************************************************************************)
(* Detail requests on the shared cache while time passes.  Time advances   *)
(* by half a TTL, so that an entry is seen fresh, at half its life and at  *)
(* an age of exactly one TTL.                                              *)
(***************************************************************************)
InitDetail ==
    /\ cache = << >>
    /\ now = 0
    /\ ticks = 0
    /\ lastSet = << >>
    /\ last = [op |-> "none", key |-> "k1", ret |-> None, found |-> "absent"]
    /\ world = NoWorld
    /\ resp = NoResp

TickHalf ==
    /\ ticks < MaxTicks
    /\ now' = now + CACHE_TTL \div 2
    /\ ticks' = ticks + 1
    /\ UNCHANGED <<cache, lastSet, last, world, resp>>

UnifiedDetail(w) ==
    LET r == unified_detail(cache, now, w) IN
    /\ world' = w
    /\ resp' = r.resp
    /\ cache' = r.cache
    /\ UNCHANGED <<now, ticks, lastSet, last>>

NextDetail ==
    \/ TickHalf
    \/ \E w \in DetailWorlds : UnifiedDetail(w)

SpecDetail == InitDetail /\ [][NextDetail]_vars

(***************************************************************************)
(* Claims about the detail resolver, checked under SpecDetail.             *)
(***************************************************************************)

\* The latest detail request was not answered from the cache: its branch ran.
DetailFetched(source) ==
    world.kind = "detail" /\ world.source = source /\ resp.kind # "cached"

C10_NotFoundSurfacedAsNotFound ==
    (DetailFetched("IMDbAPI") /\ world.primary.outcome = "not_found") =>
        /\ resp.status = 404
        /\ resp.kind \notin {"crash", "detail", "imdb_failed"}

\* C11: in each of the Jikan (AnimeCatalog), IMDbAPI (GeneralTitle) and TMDB
\* (SecondaryMetadata) branches, a failure of the primary fetch (HTTP
\* error, transport failure, or a payload that cannot be processed) is
\* answered with a structured error response of the handler, never with a
\* crash or a success; a success is answered only when the primary fetch
\* succeeded, so the external_ids call is the only one whose failure is
\* swallowed.
C11_PrimaryFailureSurfacedAsTypedError ==
    \A s \in {"Jikan", "IMDbAPI", "TMDB"} :
        DetailFetched(s) =>
            /\ world.primary.outcome \in Failures =>
                  /\ resp.kind \in {"jikan_failed", "imdb_failed", "tmdb_failed",
                                    "tmdb_unexpected"}
                  /\ resp.status >= 400
                  /\ resp.body = None
            /\ resp.status = 200 => world.primary.outcome = "ok"

C13_BadContentTypeIsValidationError ==
    (/\ world.kind = "detail"
     /\ world.source = "TMDB"
     /\ world.ctp \notin {Some("movie"), Some("tv")}) =>
        /\ resp.kind = "bad_content_type"
        /\ resp.status = 400
        /\ resp.calls = << >>

(***************************************************************************)
(* get_video_sources_endpoint.  A Python value of the raw output of        *)
(* get_video_servers is a record with its type in the field t: a str holds *)
(* its characters, a list its elements, a dict its items as a sequence of  *)
(* key/value pairs in insertion order.                                     *)
(***************************************************************************)
Str(v) == [t |-> "str", v |-> v]
Num == [t |-> "num"]
Null == [t |-> "null"]
List(items) == [t |-> "list", items |-> items]
Dict(items) == [t |-> "dict", items |-> items]
Pair(k, v) == [k |-> k, v |-> v]

\* 'k' in d
HasKey(d, k) == \E i \in DOMAIN d.items : d.items[i].k = k

\* d[k]
Lookup(d, k) == d.items[CHOOSE i \in DOMAIN d.items : d.items[i].k = k].v

\* 'k' in d and isinstance(d[k], str)
HasStr(d, k) == HasKey(d, k) /\ Lookup(d, k).t = "str"

\* The if/elif chain on an element of a nested list: the candidate it
\* appends, or None when it only prints a warning.
NestedCandidate(url_val) ==
    IF url_val.t = "str" THEN Some(url_val.v)
    ELSE IF url_val.t = "dict" /\ HasStr(url_val, "url") THEN Some(Lookup(url_val, "url").v)
    ELSE IF url_val.t = "dict" /\ HasStr(url_val, "code") THEN Some(Lookup(url_val, "code").v)
    ELSE None

\* A faulty variant of DictCandidate: the url field is not looked at.
DictCandidate_codeOnly(item) ==
    IF HasStr(item, "code") THEN Some(Lookup(item, "code").v) ELSE None

\* The if/elif chain on a dict that is an element of the top-level list or
\* a value of the top-level dict.
DictCandidate(item) ==
    IF HasStr(item, "code") THEN Some(Lookup(item, "code").v)
    ELSE IF HasStr(item, "url") THEN Some(Lookup(item, "url").v)
    ELSE None

\* extracted_urls.append(c) when there is a candidate c.
AppendCandidate(urls, c) == IF c = None THEN urls ELSE Append(urls, c[1])

\* for url_val in item: ... from element i on.
RECURSIVE NestedLoop(_, _, _)
NestedLoop(items, i, urls) ==
    IF i > Len(items) THEN urls
    ELSE NestedLoop(items, i + 1, AppendCandidate(urls, NestedCandidate(items[i])))

\* for item in raw_servers_output: ... from element i on.  The warning of
\* the last else reads url_val, a local variable that is bound only once the
\* loop over a nested list has run for at least one element; otherwise the
\* read raises UnboundLocalError.
RECURSIVE ListLoop(_, _, _, _)
ListLoop(items, i, urls, bound) ==
    IF i > Len(items) THEN [urls |-> urls, exc |-> "none"]
    ELSE LET item == items[i] IN
         IF item.t = "list"
         THEN ListLoop(items, i + 1, NestedLoop(item.items, 1, urls),
                       bound \/ item.items # << >>)
         ELSE IF item.t = "str"
         THEN ListLoop(items, i + 1, Append(urls, item.v), bound)
         ELSE IF item.t = "dict"
         THEN ListLoop(items, i + 1, AppendCandidate(urls, DictCandidate(item)), bound)
         ELSE IF bound
         THEN ListLoop(items, i + 1, urls, bound)
         ELSE [urls |-> urls, exc |-> "Exception"]

\* for key, value in raw_servers_output.items(): ... from item i on.
RECURSIVE DictLoop(_, _, _)
DictLoop(items, i, urls) ==
    IF i > Len(items) THEN urls
    ELSE LET value == items[i].v IN
         IF value.t = "list"
         THEN DictLoop(items, i + 1, NestedLoop(value.items, 1, urls))
         ELSE IF value.t = "str"
         THEN DictLoop(items, i + 1, Append(urls, value.v))
         ELSE IF value.t = "dict"
         THEN DictLoop(items, i + 1, AppendCandidate(urls, DictCandidate(value)))
         ELSE DictLoop(items, i + 1, urls)

\* The list extracted_urls built from raw_servers_output, and the exception
\* raised on the way.
extracted_urls(raw_servers_output) ==
    IF raw_servers_output.t = "list"
    THEN ListLoop(raw_servers_output.items, 1, << >>, FALSE)
    ELSE IF raw_servers_output.t = "dict"
    THEN [urls |-> DictLoop(raw_servers_output.items, 1, << >>), exc |-> "none"]
    ELSE [urls |-> << >>, exc |-> "none"]

Whitespace == {" ", "\t", "\n", "\r"}

\* str.strip()
RECURSIVE Strip(_)
Strip(s) ==
    IF s = << >> THEN s
    ELSE IF Head(s) \in Whitespace THEN Strip(Tail(s))
    ELSE IF s[Len(s)] \in Whitespace THEN Strip(SubSeq(s, 1, Len(s) - 1))
    ELSE s

\* The lists of regular expressions of categorize_video_source; each is a
\* literal text (every dot is escaped).
embed_patterns ==
    <<<<"e", "m", "b", "e", "d">>,
      <<"y", "o", "u", "r", "u", "p", "l", "o", "a", "d", ".", "c", "o", "m">>,
      <<"s", "t", "r", "e", "a", "m", "w", "i", "s", "h", ".", "t", "o">>,
      <<"s", "t", "r", "e", "a", "m", "e", ".", "n", "e", "t">>,
      <<"s", "t", "r", "e", "a", "m", "t", "a", "p", "e", ".", "c", "o", "m">>,
      <<"f", "e", "m", "b", "e", "d", ".", "c", "o", "m">>,
      <<"n", "a", "t", "u", ".", "m", "o", "e">>,
      <<"o", "k", ".", "r", "u">>,
      <<"m", "y", ".", "m", "a", "i", "l", ".", "r", "u">>,
      <<"m", "e", "g", "a", ".", "n", "z", "/", "e", "m", "b", "e", "d">>>>

direct_patterns ==
    <<<<".", "m", "p", "4">>,
      <<".", "w", "e", "b", "m">>,
      <<".", "o", "g", "g">>,
      <<".", "m", "k", "v">>,
      <<".", "a", "v", "i">>,
      <<".", "m", "o", "v">>>>

\* re.search(pattern, s) for a literal pattern.
Search(pattern, s) == \E i \in 1..Len(s) : MatchAt(s, i, pattern)

\* for pattern in patterns: if re.search(pattern, s): return ... from
\* pattern i on: whether the loop returns.
RECURSIVE AnyPattern(_, _, _)
AnyPattern(patterns, i, s) ==
    IF i > Len(patterns) THEN FALSE
    ELSE IF Search(patterns[i], s) THEN TRUE
    ELSE AnyPattern(patterns, i + 1, s)

\* A faulty variant of categorize_video_source: the file extensions are tested first.
categorize_video_source_directFirst(url) ==
    IF url.t # "str" THEN "unknown"
    ELSE LET url_lower == Lower(url.v) IN
         IF AnyPattern(direct_patterns, 1, url_lower) THEN "direct"
         ELSE IF AnyPattern(embed_patterns, 1, url_lower) THEN "embed"
         ELSE "unknown"

categorize_video_source(url) ==
    IF url.t # "str" THEN "unknown"
    ELSE LET url_lower == Lower(url.v) IN
         IF AnyPattern(embed_patterns, 1, url_lower) THEN "embed"
         ELSE IF AnyPattern(direct_patterns, 1, url_lower) THEN "direct"
         ELSE "unknown"

\* A faulty variant of IsUsableUrl: only the empty text is refused.
IsUsableUrl_nonEmpty(url) == url # << >>

\* isinstance(url, str) and url.strip(), for an element of extracted_urls
\* (all of them are strs).
IsUsableUrl(url) == Strip(url) # << >>

\* for url in extracted_urls: ... from element i on.
RECURSIVE structured_sources(_, _, _)
structured_sources(urls, i, sources) ==
    IF i > Len(urls) THEN sources
    ELSE IF IsUsableUrl(urls[i])
    THEN structured_sources(urls, i + 1,
             Append(sources, [type |-> categorize_video_source(Str(urls[i])),
                              url |-> urls[i]]))
    ELSE structured_sources(urls, i + 1, sources)

\* cache_key = f"video_sources_animeflv_{anime_id}_{episode_number}_{video_format_str}"
VideoKey(anime_id, episode_number, video_format_str) ==
    <<"video_sources_animeflv", anime_id, episode_number, video_format_str>>

\* What a call of the AnimeFLV client does: it returns ("ok"), raises
\* CloudflareChallengeError ("challenge") or raises another exception
\* ("error").
ScraperRaised(outcome) ==
    IF outcome = "challenge" THEN "CloudflareChallengeError"
    ELSE IF outcome = "error" THEN "Exception"
    ELSE "none"

\* A faulty variant of ScraperExcept: the challenge ends in the generic clause.
ScraperExcept_generic(exc) == [kind |-> "error", status |-> 500]

\* The two except clauses that follow every call of the AnimeFLV client:
\* the response given for an exception of class exc.
ScraperExcept(exc) ==
    IF exc = "CloudflareChallengeError"
    THEN [kind |-> "challenge", status |-> 503]
    ELSE [kind |-> "error", status |-> 500]

VideoResp(kind, status, sources, calls) ==
    [kind |-> kind, status |-> status, sources |-> sources, calls |-> calls]

\* get_video_sources_endpoint for the request w on the dict c at time t: the
\* response and the dict afterwards.
get_video_sources_endpoint(c, t, w) ==
    LET key == VideoKey(w.anime_id, w.episode_number, w.format)
        g == get_cached_data(c, key, t)
        calls == <<"get_video_servers">>
        failed(exc) == LET e == ScraperExcept(exc) IN
                       [resp |-> VideoResp(e.kind, e.status, << >>, calls),
                        cache |-> g.cache]
    IN  IF PyTruthy(g.ret)
        THEN [resp |-> VideoResp("cached", 200, g.ret[1].sources, << >>),
              cache |-> g.cache]
        ELSE IF w.outcome # "ok"
        THEN failed(ScraperRaised(w.outcome))
        ELSE LET x == extracted_urls(w.raw) IN
             IF x.exc # "none"
             THEN failed(x.exc)
             ELSE LET s == structured_sources(x.urls, 1, << >>) IN
                  [resp |-> VideoResp("sources", 200, s, calls),
                   cache |-> set_cached_data(g.cache, key, [sources |-> s], t)]

(***************************************************************************)
(* The raw outputs of get_video_servers the model draws from.              *)
(***************************************************************************)
MaxNodes == 2
MaxMarks == 2

\* Three URLs: a file with a leading blank and a capital, an embed page, a
\* page of neither kind.
U1 == <<" ", "A", ".", "m", "p", "4">>
U2 == <<"h", "/", "E", "m", "b", "e", "d", "/", "b">>
U3 == <<"c">>

\* The dict with the given url and code members (None: no such key).
Record(url, code) ==
    Dict((IF url = None THEN << >> ELSE <<Pair("url", url[1])>>)
         \o (IF code = None THEN << >> ELSE <<Pair("code", code[1])>>))

\* The keys of a top-level dict, in insertion order.
MapKeys == <<"SUB", "LAT", "k3", "k4">>

AsMap(values) == Dict([i \in DOMAIN values |-> Pair(MapKeys[i], values[i])])

\* The ways a leaf can hold the URL u: as a str, or as a dict that holds u
\* under url, under code, or under both.
RecordEncodings(u) ==
    {Record(Some(Str(u)), None), Record(None, Some(Str(u))),
     Record(Some(Str(u)), Some(Str(u)))}

Encodings(u) == {Str(u)} \cup RecordEncodings(u)

\* The ways to put three leaves into nested lists, in order.
Groupings(a, b, c) ==
    {<<List(<<a, b, c>>)>>, <<List(<<a>>), List(<<b, c>>)>>,
     <<List(<<a, b>>), List(<<c>>)>>, <<List(<<a>>), List(<<b>>), List(<<c>>)>>}

\* The sequences of top-level nodes that hold U1, U2, U3 in this order:
\* three dicts, or nested lists of strs and dicts.
ThreeUrlNodes ==
    {<<a, b, c>> : a \in RecordEncodings(U1), b \in RecordEncodings(U2),
                   c \in RecordEncodings(U3)}
    \cup UNION {Groupings(a, b, c) : a \in Encodings(U1), b \in Encodings(U2),
                                     c \in Encodings(U3)}

\* The leaves of all kinds: strs (one empty, one blank), other types, and
\* dicts whose url and code are absent, a str or a number.
Leaves ==
    {Str(U1), Str(<< >>), Str(<<" ">>), Num, Null}
    \cup {Record(u, c) : u \in {None, Some(Str(U1)), Some(Num)},
                         c \in {None, Some(Str(U2)), Some(Num)}}

\* One node of any kind: a leaf, or a list of no or one element (a leaf or
\* a list).
Nodes ==
    Leaves \cup {List(<< >>)}
    \cup {List(<<x>>) : x \in Leaves \cup {List(<<Str(U1)>>)}}

\* The nodes of the outputs that hold several nodes.
CoreNodes ==
    {Str(U1), Str(<<" ">>), Str(<< >>), Num, Record(Some(Str(U1)), Some(Str(U2))),
     List(<< >>), List(<<Str(U2)>>), List(<<Null>>)}

\* The pieces the URLs to categorize are made of, and the URLs of at most
\* n pieces; besides, every pattern in capitals inside a URL.
Marks ==
    {<<"e", "m", "b", "e", "d">>, <<"E", "m", "B", "e", "d">>, <<".", "m", "p", "4">>, <<".", "M", "K", "V">>,
     <<"o", "k", ".", "r", "u">>, <<"o", "k", "x", "r", "u">>, <<"S", "t", "r", "e", "a", "m", "t", "a", "p", "e", ".", "c", "o", "m">>, <<"x", "/">>}

ToUpper(s) ==
    [i \in DOMAIN s |->
        IF \E k \in DOMAIN LowerCase : LowerCase[k] = s[i]
        THEN UpperCase[CHOOSE k \in DOMAIN LowerCase : LowerCase[k] = s[i]]
        ELSE s[i]]

MarkedUrls(n) ==
    {Join(f) : f \in SeqsUpTo(Marks, n)}
    \cup {<<"h", "/">> \o ToUpper(embed_patterns[i]) \o <<"/", "x">> :
            i \in DOMAIN embed_patterns}
    \cup {<<"h", "/">> \o ToUpper(direct_patterns[i]) : i \in DOMAIN direct_patterns}

\* Raw outputs nested more deeply: a list in a list in a list (alone and
\* beside a str), a map of lists in a list, a map of maps of lists, a list
\* in a list in a map.
DeepOutputs ==
    {List(<<List(<<List(<<Str(U1)>>), Str(U2)>>)>>),
     List(<<AsMap(<<List(<<Str(U2)>>)>>)>>),
     AsMap(<<AsMap(<<List(<<Str(U2)>>)>>)>>),
     AsMap(<<List(<<List(<<Str(U2)>>)>>)>>)}

\* The raw outputs: top-level lists and dicts of the nodes above, and values
\* that are neither a list nor a dict.
RawOutputs(n, m) ==
    UNION {{List(x), AsMap(x)} :
              x \in ThreeUrlNodes \cup {<<e>> : e \in Nodes} \cup SeqsUpTo(CoreNodes, n)}
    \cup {List(<<Str(u)>>) : u \in MarkedUrls(m)}
    \cup {Null, Str(U1), Record(Some(Str(U1)), Some(Str(U2)))}
    \cup DeepOutputs

\* A video-sources request and what get_video_servers does: it returns a
\* raw output, raises CloudflareChallengeError, or raises another exception.
VideoWorlds(n, m) ==
    {[kind |-> "video", anime_id |-> "a1", episode_number |-> 1, format |-> "subtitled",
      outcome |-> "ok", raw |-> r] : r \in RawOutputs(n, m)}
    \cup {[kind |-> "video", anime_id |-> "a1", episode_number |-> 1,
           format |-> "subtitled", outcome |-> o, raw |-> Null] :
            o \in {"challenge", "error"}}

(***************************************************************************)
(* One video-sources request, repeated on the shared cache while time      *)
(* passes: the first request computes and stores the answer, the later     *)
(* ones are answered from the dict until the entry is a TTL old.           *)
(***************************************************************************)
InitVideo ==
    /\ cache = << >>
    /\ now = 0
    /\ ticks = 0
    /\ lastSet = << >>
    /\ last = [op |-> "none", key |-> "k1", ret |-> None, found |-> "absent"]
    /\ world \in VideoWorlds(MaxNodes, MaxMarks)
    /\ resp = NoResp

VideoSources ==
    LET r == get_video_sources_endpoint(cache, now, world) IN
    /\ resp' = r.resp
    /\ cache' = r.cache
    /\ UNCHANGED <<now, ticks, lastSet, last, world>>

NextVideo ==
    \/ TickHalf
    \/ VideoSources

SpecVideo == InitVideo /\ [][NextVideo]_vars

(***************************************************************************)
(* Claims about the video sources, checked under SpecVideo.                *)
(***************************************************************************)

\* A video-sources request whose get_video_servers call returned has been
\* handled.
VideoHandled == world.kind = "video" /\ world.outcome = "ok" /\ resp.kind # "none"

UrlsOf(sources) == [i \in DOMAIN sources |-> sources[i].url]

\* The text u holds a character that is not white space.
NotBlank(u) == \E i \in DOMAIN u : u[i] \notin {" ", "\t", "\n", "\r"}

RECURSIVE Concat(_)
Concat(seqs) == IF seqs = << >> THEN << >> ELSE Head(seqs) \o Concat(Tail(seqs))

\* The str members a dict has under url and code.
StrMembers(d) == {Lookup(d, k).v : k \in {k \in {"url", "code"} : HasStr(d, k)}}

\* A leaf that encodes one URL: a str, or a dict that holds the URL under
\* url, under code, or under both.
EncodesUrl(x) ==
    \/ x.t = "str"
    \/ x.t = "dict" /\ Cardinality(StrMembers(x)) = 1

EncodedUrl(x) == IF x.t = "str" THEN x.v ELSE CHOOSE u \in StrMembers(x) : TRUE

\* The values of the nodes of a top-level list or dict, in order.
TopValues(raw) ==
    IF raw.t = "list" THEN raw.items ELSE [i \in DOMAIN raw.items |-> raw.items[i].v]

\* raw is a list of lists, a list of records, a map of lists or a map of
\* records whose leaves each encode one URL.
IsShaped(raw) ==
    /\ raw.t \in {"list", "dict"}
    /\ raw.items # << >>
    /\ LET vs == TopValues(raw) IN
       \/ \A i \in DOMAIN vs :
             /\ vs[i].t = "list"
             /\ \A k \in DOMAIN vs[i].items : EncodesUrl(vs[i].items[k])
       \/ \A i \in DOMAIN vs : vs[i].t = "dict" /\ EncodesUrl(vs[i])

\* The URLs such a raw output encodes, in order.
EncodedUrls(raw) ==
    LET vs == TopValues(raw) IN
    Concat([i \in DOMAIN vs |->
               IF vs[i].t = "list"
               THEN [k \in DOMAIN vs[i].items |-> EncodedUrl(vs[i].items[k])]
               ELSE <<EncodedUrl(vs[i])>>])

\* C14: a raw output in one of the four shapes (list of lists, list of
\* records, map of lists, map of records) whose leaves encode the URLs u1,
\* u2, u3 in this order, each as a str or as a record that holds it under
\* url, under code or under both, flattens to [u1, u2, u3]; so the four
\* shapes of the same URLs give the same list.
C14_FlatteningIsShapeIndependent ==
    (VideoHandled /\ IsShaped(world.raw)) =>
        /\ resp.status = 200
        /\ UrlsOf(resp.sources) = SelectSeq(EncodedUrls(world.raw), NotBlank)

\* A map of lists that holds U1 under url and code of a record, U2 as a str
\* and U3 under code has been flattened to [U1, U2, U3].
C14_Witness ==
    /\ VideoHandled
    /\ world.raw = AsMap(<<List(<<Record(Some(Str(U1)), Some(Str(U1)))>>),
                           List(<<Str(U2), Record(None, Some(Str(U3)))>>)>>)
    /\ UrlsOf(resp.sources) = <<U1, U2, U3>>

\* What a leaf emits when url goes before code: the url member if it is a
\* str, else the code member if it is a str.
UrlFirst(x) ==
    IF x.t = "str" THEN <<x.v>>
    ELSE IF x.t = "dict" /\ HasStr(x, "url") THEN <<Lookup(x, "url").v>>
    ELSE IF x.t = "dict" /\ HasStr(x, "code") THEN <<Lookup(x, "code").v>>
    ELSE << >>

\* C15: a record leaf emits its url member when that is a str and its code
\* member only otherwise, at every position: as an element of the top-level
\* list, as an element of a nested list, as a value of the top-level dict.
C15_UrlBeforeCodeEverywhere ==
    (VideoHandled /\ resp.status = 200 /\ world.raw.t \in {"list", "dict"}) =>
        LET vs == TopValues(world.raw) IN
        UrlsOf(resp.sources) =
            SelectSeq(Concat([i \in DOMAIN vs |->
                                 IF vs[i].t = "list"
                                 THEN Concat([k \in DOMAIN vs[i].items |->
                                                 UrlFirst(vs[i].items[k])])
                                 ELSE UrlFirst(vs[i])]),
                      NotBlank)

\* The raw output without its top-level nodes that are no str, list or dict.
WithoutUnexpected(raw) ==
    IF raw.t \in {"list", "dict"}
    THEN [raw EXCEPT !.items =
             SelectSeq(@, LAMBDA e : (IF raw.t = "list" THEN e ELSE e.v).t
                                         \in {"str", "list", "dict"})]
    ELSE raw

\* C16: whatever get_video_servers returned, a node of an unexpected type
\* (a number, null) at any position included, the request is answered with
\* a success that lists the sources of the other nodes: the answer is the
\* one given for the raw output without the unexpected nodes.
C16_FlatteningNeverFails ==
    VideoHandled =>
        /\ resp.status = 200
        /\ resp.sources =
              get_video_sources_endpoint(<< >>, 0,
                  [world EXCEPT !.raw = WithoutUnexpected(@)]).resp.sources

\* The category the rules give the URL u: embed if its lower-case form
\* holds the keyword embed or a fragment of a known embed host, else direct
\* if it holds one of the six file extensions, else unknown.
RuleCategory(u) ==
    LET l == Lower(u)
        hosts == {embed_patterns[i] : i \in DOMAIN embed_patterns}
        extensions == {<<".", "m", "p", "4">>, <<".", "w", "e", "b", "m">>, <<".", "o", "g", "g">>,
                       <<".", "m", "k", "v">>, <<".", "a", "v", "i">>, <<".", "m", "o", "v">>}
    IN  IF Search(<<"e", "m", "b", "e", "d">>, l) \/ \E h \in hosts : Search(h, l)
        THEN "embed"
        ELSE IF \E e \in extensions : Search(e, l) THEN "direct"
        ELSE "unknown"

\* C17: every source of an answer carries the category the rules give its
\* URL; a URL with an embed marker and a file extension is embed; the
\* category does not depend on the case of the letters; and a value that is
\* no str is unknown.
C17_CategorizationFirstMatch ==
    VideoHandled =>
        \A n \in DOMAIN resp.sources :
            LET e == resp.sources[n] IN
            /\ e.type = RuleCategory(e.url)
            /\ e.type \in {"embed", "direct", "unknown"}
            /\ categorize_video_source(Str(ToUpper(e.url))) = e.type
            /\ categorize_video_source(Str(Lower(e.url))) = e.type
            /\ categorize_video_source(Num) = "unknown"

\* The URL EmBed.mp4, which holds an embed marker and a file extension,
\* has been categorized as embed.
C17_Witness ==
    /\ VideoHandled
    /\ world.raw = List(<<Str(<<"E", "m", "B", "e", "d", ".", "m", "p", "4">>)>>)
    /\ resp.sources = <<[type |-> "embed", url |-> <<"E", "m", "B", "e", "d", ".", "m", "p", "4">>]>>

\* C18: the sources of an answer are the candidates the flattening emitted
\* that hold a character other than white space, one entry for each, in the
\* order of emission, the url being the candidate as it is; a candidate
\* emitted twice gives two entries.
C18_OneSourcePerCandidate ==
    (VideoHandled /\ resp.status = 200) =>
        /\ UrlsOf(resp.sources) = SelectSeq(extracted_urls(world.raw).urls, NotBlank)
        /\ \A n \in DOMAIN resp.sources : DOMAIN resp.sources[n] = {"type", "url"}

\* The same URL, with its leading blank, was emitted twice and stands in
\* the answer twice.
C18_Witness ==
    /\ VideoHandled
    /\ world.raw = List(<<Str(U1), Str(U1)>>)
    /\ UrlsOf(resp.sources) = <<U1, U1>>
    /\ Head(U1) = " "

\* x is a record: a dict with a url or a code member.
IsRecord(x) == x.t = "dict" /\ (HasKey(x, "url") \/ HasKey(x, "code"))

\* Every record inside x holds at most one text under url and code, so
\* that what the record emits does not depend on the order of the two.
RECURSIVE Unambiguous(_)
Unambiguous(x) ==
    IF x.t = "list" THEN \A i \in DOMAIN x.items : Unambiguous(x.items[i])
    ELSE IF IsRecord(x) THEN Cardinality(StrMembers(x)) <= 1
    ELSE IF x.t = "dict" THEN \A i \in DOMAIN x.items : Unambiguous(x.items[i].v)
    ELSE TRUE

\* The walk to any depth: a str is emitted, a record emits its text, a
\* list is walked element by element and a mapping value by value, and
\* anything else is dropped.
RECURSIVE Walk(_)
Walk(x) ==
    IF x.t = "str" THEN <<x.v>>
    ELSE IF x.t = "list" THEN Concat([i \in DOMAIN x.items |-> Walk(x.items[i])])
    ELSE IF IsRecord(x) THEN UrlFirst(x)
    ELSE IF x.t = "dict" THEN Concat([i \in DOMAIN x.items |-> Walk(x.items[i].v)])
    ELSE << >>

\* C26: the URLs of a success are the str and record leaves of the raw
\* output at every depth, in the order of the walk: a list inside a list
\* inside a list, a mapping inside a list and a mapping of mappings of
\* lists contribute their leaves like the shallow shapes do.
C26_FlatteningRecursesToAnyDepth ==
    (VideoHandled /\ resp.status = 200 /\ world.raw.t \in {"list", "dict"}
        /\ Unambiguous(world.raw)) =>
        UrlsOf(resp.sources) = SelectSeq(Walk(world.raw), NotBlank)

(***************************************************************************)
(* The endpoints of the AnimeFLV catalog: search_anime_deprecated,         *)
(* get_anime_info_endpoint, get_latest_episodes_endpoint and               *)
(* get_latest_animes_endpoint.  Each looks its key up, calls the AnimeFLV  *)
(* client once, stores what it serialized and answers with it.  A payload  *)
(* is a Python list or dict, a value of the kind List(..) or Dict(..).     *)
(***************************************************************************)

\* bool(v) of a list or a dict: it is not empty.
Truthy(v) == v.items # << >>

\* `if cached_results:` on what get_cached_data returned.
IsCacheHit(ret) == ret # None /\ Truthy(ret[1])

\* A response of a catalog or proxy endpoint; body is the payload of a
\* success and None otherwise.
EndpointResp(kind, status, body, calls) ==
    [kind |-> kind, status |-> status, body |-> body, calls |-> calls]

\* The response of the except clauses after the call named call.
ScraperFailed(exc, call) ==
    LET e == ScraperExcept(exc) IN EndpointResp(e.kind, e.status, None, <<call>>)

\* `page or 'none'` inside the f-string: the page number as text, or none
\* for no page and for page 0.
PageText(page) == IF page = None \/ page[1] = "0" THEN "none" ELSE page[1]

\* cache_key = f"search_animeflv_{query}_{page or 'none'}"
SearchKey(query, page) == <<"search_animeflv", query, PageText(page)>>

\* The dict built for an AnimeInfo of a search or of the latest animes.
SerializeAnime(anime) == [id |-> anime.id, title |-> anime.title]

\* The dict built for an EpisodeInfo.
SerializeEpisode(episode) == [id |-> episode.id, anime |-> episode.anime]

\* search_anime_deprecated for the request w on the dict c at time t.
search_anime_deprecated(c, t, w) ==
    IF w.query = None
    THEN [resp |-> EndpointResp("missing_query", 400, None, << >>), cache |-> c]
    ELSE LET key == SearchKey(w.query[1], w.page)
             g == get_cached_data(c, key, t)
         IN  IF IsCacheHit(g.ret)
             THEN [resp |-> EndpointResp("cached", 200, g.ret, << >>), cache |-> g.cache]
             ELSE IF w.outcome # "ok"
             THEN [resp |-> ScraperFailed(ScraperRaised(w.outcome), "search"),
                   cache |-> g.cache]
             ELSE LET serializable_results ==
                          List([i \in DOMAIN w.items |-> SerializeAnime(w.items[i])])
                  IN  [resp |-> EndpointResp("results", 200, Some(serializable_results),
                                             <<"search">>),
                       cache |-> set_cached_data(g.cache, key, serializable_results, t)]

\* cache_key = f"anime_info_animeflv_{anime_id}"
InfoKey(anime_id) == <<"anime_info_animeflv", anime_id>>

\* `x if x else None` on an optional text.
OrNone(x) == IF x # None /\ x[1] # << >> THEN x ELSE None

\* The dict serializable_info built from the AnimeInfo the client returned.
SerializeInfo(info) ==
    Dict(<<Pair("id", info.id), Pair("title", OrNone(info.title)),
           Pair("episodes", [i \in DOMAIN info.episodes |->
                                SerializeEpisode(info.episodes[i])])>>)

\* get_anime_info_endpoint for the request w on the dict c at time t.
get_anime_info_endpoint(c, t, w) ==
    LET key == InfoKey(w.anime_id)
        g == get_cached_data(c, key, t)
    IN  IF IsCacheHit(g.ret)
        THEN [resp |-> EndpointResp("cached", 200, g.ret, << >>), cache |-> g.cache]
        ELSE IF w.outcome # "ok"
        THEN [resp |-> ScraperFailed(ScraperRaised(w.outcome), "get_anime_info"),
              cache |-> g.cache]
        ELSE LET serializable_info == SerializeInfo(w.info) IN
             [resp |-> EndpointResp("info", 200, Some(serializable_info),
                                    <<"get_anime_info">>),
              cache |-> set_cached_data(g.cache, key, serializable_info, t)]

\* cache_key = "latest_episodes" and cache_key = "latest_animes"
LatestEpisodesKey == <<"latest_episodes">>
LatestAnimesKey == <<"latest_animes">>

\* get_latest_episodes_endpoint for the request w on the dict c at time t.
get_latest_episodes_endpoint(c, t, w) ==
    LET g == get_cached_data(c, LatestEpisodesKey, t) IN
    IF IsCacheHit(g.ret)
    THEN [resp |-> EndpointResp("cached", 200, g.ret, << >>), cache |-> g.cache]
    ELSE IF w.outcome # "ok"
    THEN [resp |-> ScraperFailed(ScraperRaised(w.outcome), "get_latest_episodes"),
          cache |-> g.cache]
    ELSE LET serializable_episodes ==
                 List([i \in DOMAIN w.items |-> SerializeEpisode(w.items[i])])
         IN  [resp |-> EndpointResp("episodes", 200, Some(serializable_episodes),
                                    <<"get_latest_episodes">>),
              cache |-> set_cached_data(g.cache, LatestEpisodesKey,
                                        serializable_episodes, t)]

\* get_latest_animes_endpoint for the request w on the dict c at time t.
get_latest_animes_endpoint(c, t, w) ==
    LET g == get_cached_data(c, LatestAnimesKey, t) IN
    IF IsCacheHit(g.ret)
    THEN [resp |-> EndpointResp("cached", 200, g.ret, << >>), cache |-> g.cache]
    ELSE IF w.outcome # "ok"
    THEN [resp |-> ScraperFailed(ScraperRaised(w.outcome), "get_latest_animes"),
          cache |-> g.cache]
    ELSE LET serializable_animes ==
                 List([i \in DOMAIN w.items |-> SerializeAnime(w.items[i])])
         IN  [resp |-> EndpointResp("animes", 200, Some(serializable_animes),
                                    <<"get_latest_animes">>),
              cache |-> set_cached_data(g.cache, LatestAnimesKey,
                                        serializable_animes, t)]

(***************************************************************************)
(* The proxy endpoints get_imdb_title_info and get_tmdb_details_info.  A   *)
(* request to the provider succeeds with a JSON body, or raises HTTPError  *)
(* with the status of the answer ("not_found" for 404, "http_error" for    *)
(* another status), ConnectionError ("transport"), or an exception of      *)
(* another class ("malformed": the body is no JSON).                       *)
(***************************************************************************)

\* The except clauses of the two proxy endpoints: the kind and the status
\* of the response for a failed call.
ProxyExcept(outcome, status_code) ==
    IF outcome \in {"not_found", "http_error"}
    THEN IF status_code = 404 THEN [kind |-> "not_found", status |-> 404]
         ELSE IF status_code = 401 THEN [kind |-> "unauthorized", status |-> 401]
         ELSE [kind |-> "upstream_error", status |-> status_code]
    ELSE IF outcome = "transport" THEN [kind |-> "connection_failed", status |-> 500]
    ELSE [kind |-> "unexpected", status |-> 500]

\* A faulty variant of ProxyFetch: the body is stored before the status is looked at.
ProxyFetch_storeFirst(c, t, w, key, call) ==
    IF w.outcome = "ok"
    THEN [resp |-> EndpointResp("proxied", 200, Some(w.body), <<call>>),
          cache |-> set_cached_data(c, key, w.body, t)]
    ELSE LET e == ProxyExcept(w.outcome, w.status_code) IN
         [resp |-> EndpointResp(e.kind, e.status, None, <<call>>),
          cache |-> set_cached_data(c, key, w.body, t)]

\* The try block of a proxy endpoint after a miss: the call named call is
\* made, its body stored under key and returned.
ProxyFetch(c, t, w, key, call) ==
    IF w.outcome = "ok"
    THEN [resp |-> EndpointResp("proxied", 200, Some(w.body), <<call>>),
          cache |-> set_cached_data(c, key, w.body, t)]
    ELSE LET e == ProxyExcept(w.outcome, w.status_code) IN
         [resp |-> EndpointResp(e.kind, e.status, None, <<call>>), cache |-> c]

\* cache_key = f"imdb_title_{title_id}"
ImdbTitleKey(title_id) == <<"imdb_title", title_id>>

\* get_imdb_title_info for the request w on the dict c at time t; w.token
\* is whether IMDB_API_READ_ACCESS_TOKEN is set.
get_imdb_title_info(c, t, w) ==
    LET key == ImdbTitleKey(w.id)
        g == get_cached_data(c, key, t)
    IN  IF IsCacheHit(g.ret)
        THEN [resp |-> EndpointResp("cached", 200, g.ret, << >>), cache |-> g.cache]
        ELSE IF ~w.token
        THEN [resp |-> EndpointResp("not_configured", 500, None, << >>),
              cache |-> g.cache]
        ELSE ProxyFetch(g.cache, t, w, key, "imdb_title")

\* cache_key = f"tmdb_detail_{tmdb_id}_{content_type}"
TmdbDetailKey(tmdb_id, content_type) == <<"tmdb_detail", tmdb_id, content_type>>

\* get_tmdb_details_info for the request w on the dict c at time t; w.token
\* is whether TMDB_API_KEY is set.
get_tmdb_details_info(c, t, w) ==
    IF w.content_type \notin {"movie", "tv"}
    THEN [resp |-> EndpointResp("bad_content_type", 400, None, << >>), cache |-> c]
    ELSE LET key == TmdbDetailKey(w.id, w.content_type)
             g == get_cached_data(c, key, t)
         IN  IF IsCacheHit(g.ret)
             THEN [resp |-> EndpointResp("cached", 200, g.ret, << >>),
                   cache |-> g.cache]
             ELSE IF ~w.token
             THEN [resp |-> EndpointResp("not_configured", 500, None, << >>),
                   cache |-> g.cache]
             ELSE ProxyFetch(g.cache, t, w, key, "tmdb_details")

(***************************************************************************)
(* The server: requests of one route handled one after the other on the    *)
(* shared dict while time passes.  Every handler reads and writes the dict *)
(* only under its own cache_key, and the keys of different routes differ   *)
(* in their first part, so a behaviour follows the requests of one route;  *)
(* the route is drawn at the start.  What the provider answers is drawn    *)
(* anew for every request.                                                 *)
(***************************************************************************)
MaxServerItems == 1

Routes ==
    {"detail", "search", "video", "search_animeflv", "anime_info", "latest_episodes",
     "latest_animes", "imdb_title", "tmdb_details"}

ScraperFailures == {"challenge", "error"}

\* What the AnimeFLV client returns: lists of at most n animes or episodes.
AnimeLists(n) == SeqsUpTo({[id |-> "a1", title |-> <<"A">>]}, n)
EpisodeLists(n) == SeqsUpTo({[id |-> 1, anime |-> "a1"]}, n)

\* The unified search requests served here: the items of the two providers
\* carry all their fields, the items with absent fields being the matter of
\* the search specification.
ServerSearchWorlds(n) ==
    {w \in SearchWorlds(n) :
        /\ \A i \in DOMAIN w.jikan.items :
              w.jikan.items[i].title_english # None /\ w.jikan.items[i].title # None
        /\ \A i \in DOMAIN w.imdb.items :
              w.imdb.items[i].title = Some(<<"B">>) /\ w.imdb.items[i].titleType = Some("movie")}

LegacySearchWorlds(n) ==
    {[kind |-> "search_animeflv", query |-> Some("q"), page |-> p, outcome |-> "ok",
      items |-> x] : p \in {None, Some("0"), Some("2")}, x \in AnimeLists(n)}
    \cup {[kind |-> "search_animeflv", query |-> Some("q"), page |-> None, outcome |-> o,
           items |-> << >>] : o \in ScraperFailures}
    \cup {[kind |-> "search_animeflv", query |-> None, page |-> None, outcome |-> "ok",
           items |-> << >>]}

InfoWorlds(n) ==
    {[kind |-> "anime_info", anime_id |-> "a1", outcome |-> "ok",
      info |-> [id |-> "a1", title |-> x, episodes |-> e]] :
        x \in {None, Some(<< >>), Some(<<"A">>)}, e \in EpisodeLists(n)}
    \cup {[kind |-> "anime_info", anime_id |-> "a1", outcome |-> o,
           info |-> [id |-> "a1", title |-> None, episodes |-> << >>]] :
            o \in ScraperFailures}

LatestEpisodesWorlds(n) ==
    {[kind |-> "latest_episodes", outcome |-> "ok", items |-> x] : x \in EpisodeLists(n)}
    \cup {[kind |-> "latest_episodes", outcome |-> o, items |-> << >>] :
            o \in ScraperFailures}

LatestAnimesWorlds(n) ==
    {[kind |-> "latest_animes", outcome |-> "ok", items |-> x] : x \in AnimeLists(n)}
    \cup {[kind |-> "latest_animes", outcome |-> o, items |-> << >>] :
            o \in ScraperFailures}

\* A few raw outputs for the video sources: no source, one source, a value
\* that makes the flattening raise, a map of lists.
ServerRawOutputs ==
    {List(<< >>), List(<<Str(U1)>>), List(<<Num>>), AsMap(<<List(<<Str(U2)>>)>>)}

ServerVideoWorlds ==
    {[kind |-> "video", anime_id |-> "a1", episode_number |-> 1, format |-> "subtitled",
      outcome |-> "ok", raw |-> r] : r \in ServerRawOutputs}
    \cup {[kind |-> "video", anime_id |-> "a1", episode_number |-> 1,
           format |-> "subtitled", outcome |-> o, raw |-> Null] : o \in ScraperFailures}

\* The JSON bodies a proxied provider answers with: an empty object and an
\* object with a member.
ProxyBodies == {Dict(<< >>), Dict(<<Pair("id", "tt7")>>)}

\* The answers to a proxied call: a body, or a failure with the status of
\* the answer where there is one.
ProxyAnswers ==
    {[outcome |-> "ok", status_code |-> 200, body |-> b] : b \in ProxyBodies}
    \cup {[outcome |-> "not_found", status_code |-> 404, body |-> Dict(<< >>)]}
    \cup {[outcome |-> "http_error", status_code |-> x, body |-> Dict(<< >>)] :
            x \in {401, 503}}
    \cup {[outcome |-> o, status_code |-> 0, body |-> Dict(<< >>)] :
            o \in {"transport", "malformed"}}

ImdbTitleWorlds ==
    {[kind |-> "imdb_title", id |-> "tt7", token |-> k, outcome |-> a.outcome,
      status_code |-> a.status_code, body |-> a.body] : k \in BOOLEAN, a \in ProxyAnswers}

TmdbDetailsWorlds ==
    {[kind |-> "tmdb_details", id |-> "7", content_type |-> ct, token |-> k,
      outcome |-> a.outcome, status_code |-> a.status_code, body |-> a.body] :
        ct \in {"movie", "tv", "person"}, k \in BOOLEAN, a \in ProxyAnswers}

\* No request handled yet on the route r.
Idle(r) == [kind |-> "none", route |-> r]

InitServer ==
    /\ cache = << >>
    /\ now = 0
    /\ ticks = 0
    /\ lastSet = << >>
    /\ last = [op |-> "none", key |-> "k1", ret |-> None, found |-> "absent"]
    /\ world \in {Idle(r) : r \in Routes}
    /\ resp = NoResp

\* The behaviour follows the route r.
OnRoute(r) == IF world.kind = "none" THEN world.route = r ELSE world.kind = r

\* The request w is handled with the outcome r (a response and the dict
\* afterwards).
Serve(w, r) ==
    /\ world' = w
    /\ resp' = r.resp
    /\ cache' = r.cache
    /\ UNCHANGED <<now, ticks, lastSet, last>>

ServeDetail == OnRoute("detail") /\ \E w \in DetailWorlds : UnifiedDetail(w)

ServeSearch ==
    /\ OnRoute("search")
    /\ \E w \in ServerSearchWorlds(MaxServerItems) :
          Serve(w, [resp |-> unified_search(w), cache |-> cache])

ServeVideo ==
    /\ OnRoute("video")
    /\ \E w \in ServerVideoWorlds : Serve(w, get_video_sources_endpoint(cache, now, w))

ServeLegacySearch ==
    /\ OnRoute("search_animeflv")
    /\ \E w \in LegacySearchWorlds(MaxServerItems) :
          Serve(w, search_anime_deprecated(cache, now, w))

ServeInfo ==
    /\ OnRoute("anime_info")
    /\ \E w \in InfoWorlds(MaxServerItems) : Serve(w, get_anime_info_endpoint(cache, now, w))

ServeLatestEpisodes ==
    /\ OnRoute("latest_episodes")
    /\ \E w \in LatestEpisodesWorlds(MaxServerItems) :
          Serve(w, get_latest_episodes_endpoint(cache, now, w))

ServeLatestAnimes ==
    /\ OnRoute("latest_animes")
    /\ \E w \in LatestAnimesWorlds(MaxServerItems) :
          Serve(w, get_latest_animes_endpoint(cache, now, w))

ServeImdbTitle ==
    /\ OnRoute("imdb_title")
    /\ \E w \in ImdbTitleWorlds : Serve(w, get_imdb_title_info(cache, now, w))

ServeTmdbDetails ==
    /\ OnRoute("tmdb_details")
    /\ \E w \in TmdbDetailsWorlds : Serve(w, get_tmdb_details_info(cache, now, w))

NextServer ==
    \/ TickHalf
    \/ ServeDetail
    \/ ServeSearch
    \/ ServeVideo
    \/ ServeLegacySearch
    \/ ServeInfo
    \/ ServeLatestEpisodes
    \/ ServeLatestAnimes
    \/ ServeImdbTitle
    \/ ServeTmdbDetails

SpecServer == InitServer /\ [][NextServer]_vars

(***************************************************************************)
(* Claims about the server, checked under SpecServer.                      *)
(***************************************************************************)

\* The requests to the five endpoints that call the AnimeFLV client.
ScraperWorlds ==
    ServerVideoWorlds \cup LegacySearchWorlds(MaxServerItems) \cup InfoWorlds(MaxServerItems)
        \cup LatestEpisodesWorlds(MaxServerItems) \cup LatestAnimesWorlds(MaxServerItems)

\* The step in which the handler of w's route handles the request w.
Handled(w) ==
    Serve(w, CASE w.kind = "video" -> get_video_sources_endpoint(cache, now, w)
               [] w.kind = "search_animeflv" -> search_anime_deprecated(cache, now, w)
               [] w.kind = "anime_info" -> get_anime_info_endpoint(cache, now, w)
               [] w.kind = "latest_episodes" -> get_latest_episodes_endpoint(cache, now, w)
               [] w.kind = "latest_animes" -> get_latest_animes_endpoint(cache, now, w)
               [] w.kind = "imdb_title" -> get_imdb_title_info(cache, now, w)
               [] w.kind = "tmdb_details" -> get_tmdb_details_info(cache, now, w)
               [] w.kind = "detail" -> unified_detail(cache, now, w)
               [] w.kind = "search" -> [resp |-> unified_search(w), cache |-> cache])

\* The step wrote nothing to the dict: every entry it holds afterwards was
\* there before, unchanged, and an entry that is gone was a TTL old.
NothingWritten ==
    /\ \A k \in DOMAIN cache' : k \in DOMAIN cache /\ cache'[k] = cache[k]
    /\ \A k \in DOMAIN cache \ DOMAIN cache' : now - cache[k].timestamp >= CACHE_TTL

\* C21: a request to one of the five endpoints of the scraping provider
\* (legacy search, anime info, video sources, latest episodes, latest
\* animes) whose call of the provider meets the anti-automation challenge
\* is answered with the response of its own class, status 503, which is
\* not the status of a validation error (400), of a not-found (404) or of
\* the unexpected-error class (500); the provider was called once in the
\* request and nothing was written to the dict.  The provider is called,
\* and so the challenge met, whenever the dict holds no entry for the key.
C21_ChallengeSurfacedDistinctly ==
    [][\A w \in ScraperWorlds :
          (w.outcome = "challenge" /\ Handled(w)) =>
              /\ resp'.calls # << >> =>
                    /\ resp'.kind = "challenge"
                    /\ resp'.status = 503
                    /\ resp'.status \notin {400, 404, 500}
                    /\ Len(resp'.calls) = 1
                    /\ NothingWritten
              /\ cache = << >> => resp'.calls # << >>]_vars

\* The video sources endpoint met the challenge a TTL or more after the
\* start: the answer is the 503 and the dict holds no entry.
C21_Witness ==
    /\ world.kind = "video"
    /\ world.outcome = "challenge"
    /\ resp.kind = "challenge"
    /\ resp.status = 503
    /\ resp.calls = <<"get_video_servers">>
    /\ now >= CACHE_TTL
    /\ cache = << >>

\* The requests to the cached operations: detail, video sources and the
\* catalog endpoints (the legacy search with a query).
CachedWorlds == DetailWorlds \cup {w \in ScraperWorlds : w.kind = "search_animeflv" => w.query # None}

\* The cache_key of the request w.
KeyOf(w) ==
    CASE w.kind = "detail" -> DetailKey(w.source, w.id)
      [] w.kind = "video" -> VideoKey(w.anime_id, w.episode_number, w.format)
      [] w.kind = "search_animeflv" -> SearchKey(w.query[1], w.page)
      [] w.kind = "anime_info" -> InfoKey(w.anime_id)
      [] w.kind = "latest_episodes" -> LatestEpisodesKey
      [] w.kind = "latest_animes" -> LatestAnimesKey
      [] w.kind = "imdb_title" -> ImdbTitleKey(w.id)
      [] w.kind = "tmdb_details" -> TmdbDetailKey(w.id, w.content_type)

\* The response r carries the payload data.
Carries(r, data) ==
    IF "sources" \in DOMAIN r THEN r.sources = data.sources ELSE r.body = Some(data)

\* C22: a request to a cached operation whose key holds an entry stored
\* less than a TTL ago is answered with the payload of that entry and makes
\* no provider call, whatever the payload is, an empty list included.
C22_CacheHitShortCircuits ==
    [][\A w \in CachedWorlds :
          (/\ Handled(w)
           /\ KeyOf(w) \in DOMAIN cache
           /\ now - cache[KeyOf(w)].timestamp < CACHE_TTL) =>
              /\ resp'.calls = << >>
              /\ resp'.status = 200
              /\ Carries(resp', cache[KeyOf(w)].data)]_vars

\* C23: once a unified search has been answered with its result set, the
\* dict holds an entry (the result set stored after the providers were
\* queried), and the same search handled again in that state, no time
\* having passed, is answered without a call to Jikan or IMDbAPI.
C23_SearchUsesTheCache ==
    (world.kind = "search" /\ resp.kind = "results") =>
        /\ cache # << >>
        /\ unified_search(world).calls = << >>

\* No call stands twice in the list of calls.
NoRepeats(calls) == \A i, j \in DOMAIN calls : calls[i] = calls[j] => i = j

CalledAfter(calls, a, b) ==
    \E i, j \in DOMAIN calls : i < j /\ calls[i] = b /\ calls[j] = a

Called(calls, a) == \E i \in DOMAIN calls : calls[i] = a

\* The latest request was a TMDB detail request whose branch made its
\* primary call.
TmdbFetched ==
    /\ world.kind = "detail"
    /\ world.source = "TMDB"
    /\ resp.kind # "cached"
    /\ world.primary.outcome # "unasked"

\* In a unified search the IMDbAPI call follows the Jikan call, whatever
\* the Jikan call did.
SearchSequential ==
    (world.kind = "search" /\ resp.kind # "none") =>
        /\ Called(resp.calls, "imdb_search") =>
              CalledAfter(resp.calls, "imdb_search", "jikan_search")
        /\ (world.query # None /\ world.token) =>
              resp.calls = <<"jikan_search", "imdb_search">>

NoLookup(w) ==
    \/ w.kind = "search"
    \/ w.kind = "search_animeflv" /\ w.query = None
    \/ w.kind = "tmdb_details" /\ w.content_type \notin {"movie", "tv"}

\* C27: an entry of the dict is new or changed after a request only if the
\* request was answered with a success, and the entry then holds the
\* payload of that answer, stamped with the time of the request; a request
\* answered with anything else (validation error, upstream error,
\* not-found, challenge, unexpected error) leaves the dict as its own
\* lookup left it: unchanged, or without the expired entry of its key.
C27_OnlySuccessesCached ==
    [][(world'.kind # "none" /\ Handled(world')) =>
          /\ \A k \in DOMAIN cache' :
                (k \notin DOMAIN cache \/ cache'[k] # cache[k]) =>
                    /\ resp'.status = 200
                    /\ resp'.kind # "cached"
                    /\ Carries(resp', cache'[k].data)
                    /\ cache'[k].timestamp = now
                    /\ k = KeyOf(world')
          /\ resp'.status # 200 =>
                IF NoLookup(world') THEN cache' = cache
                ELSE cache' = get_cached_data(cache, KeyOf(world'), now).cache]_vars

\* The IMDbAPI proxy answered a not-found while the dict holds the entry a
\* success stored earlier; the entry is still there.
C27_Witness ==
    /\ world.kind = "imdb_title"
    /\ resp.kind = "not_found"
    /\ resp.status = 404
    /\ ImdbTitleKey(world.id) \in DOMAIN cache
    /\ cache[ImdbTitleKey(world.id)].timestamp < now

\* C28: a detail response for source TMDB that is served from the dict is
\* the record of the request's own content type: a request for (id, movie)
\* is never answered with the record that was fetched and stored for
\* (id, tv), nor the other way round.
C28_CachedDetailMatchesRequest ==
    (/\ world.kind = "detail"
     /\ world.source = "TMDB"
     /\ world.ctp \in {Some("movie"), Some("tv")}
     /\ resp.kind = "cached") =>
        /\ resp.body[1].source = "TMDB"
        /\ resp.body[1].id = world.id
        /\ resp.body[1].content_type = world.ctp

(***************************************************************************)
(* The cache under threaded request handling (app.run serves each request  *)
(* in a thread of its own).  A thread runs get_cached_data statement by    *)
(* statement: the membership test, the read of the timestamp, then the     *)
(* read of the data or the del; the interpreter may switch threads between *)
(* any two of them.  A subscript or a del of a key the dict does not hold  *)
(* raises KeyError.  set_cached_data is a single store.  world holds the   *)
(* position of every thread and how its last operation ended.              *)
(***************************************************************************)
Threads == {1, 2}
RaceKey == "k1"

IdleThread == [pc |-> "idle", out |-> "none"]

InitRace ==
    /\ cache = << >>
    /\ now = 0
    /\ ticks = 0
    /\ lastSet = << >>
    /\ last = [op |-> "none", key |-> "k1", ret |-> None, found |-> "absent"]
    /\ world = [kind |-> "race", th |-> [i \in Threads |-> IdleThread]]
    /\ resp = NoResp

\* Thread i moves to pc with the outcome out of the operation it ended, if any.
Goto(i, pc, out) ==
    world' = [world EXCEPT !.th[i] = [pc |-> pc, out |-> out]]

\* `if key in cache:`; when the test fails the function returns None.
GetCheck(i) ==
    /\ world.th[i].pc = "idle"
    /\ IF RaceKey \in DOMAIN cache THEN Goto(i, "stamp", "none")
       ELSE Goto(i, "idle", "absent")
    /\ UNCHANGED <<cache, now, ticks, lastSet, last, resp>>

\* `(time.time() - cache[key]['timestamp']) < CACHE_TTL`
GetStamp(i) ==
    /\ world.th[i].pc = "stamp"
    /\ IF RaceKey \notin DOMAIN cache THEN Goto(i, "idle", "KeyError")
       ELSE IF IsFresh(now - cache[RaceKey].timestamp) THEN Goto(i, "read", "none")
       ELSE Goto(i, "del", "none")
    /\ UNCHANGED <<cache, now, ticks, lastSet, last, resp>>

\* `return cache[key]['data']`
GetRead(i) ==
    /\ world.th[i].pc = "read"
    /\ IF RaceKey \notin DOMAIN cache THEN Goto(i, "idle", "KeyError")
       ELSE Goto(i, "idle", "value")
    /\ UNCHANGED <<cache, now, ticks, lastSet, last, resp>>

\* `del cache[key]`, then the function returns None.
GetDel(i) ==
    /\ world.th[i].pc = "del"
    /\ IF RaceKey \notin DOMAIN cache
       THEN Goto(i, "idle", "KeyError") /\ cache' = cache
       ELSE Goto(i, "idle", "absent") /\ cache' = DelKey(cache, RaceKey)
    /\ UNCHANGED <<now, ticks, lastSet, last, resp>>

\* set_cached_data(key, v) by thread i.
RaceSet(i, v) ==
    /\ world.th[i].pc = "idle"
    /\ cache' = set_cached_data(cache, RaceKey, v, now)
    /\ Goto(i, "idle", "stored")
    /\ UNCHANGED <<now, ticks, lastSet, last, resp>>

NextRace ==
    \/ Tick
    \/ \E i \in Threads : GetCheck(i)
    \/ \E i \in Threads : GetStamp(i)
    \/ \E i \in Threads : GetRead(i)
    \/ \E i \in Threads : GetDel(i)
    \/ \E i \in Threads, v \in Values : RaceSet(i, v)

SpecRace == InitRace /\ [][NextRace]_vars

\* C29: with gets and sets of several threads interleaved on one key, every
\* get ends with a value or with absent and none raises, also when two gets
\* both find the entry expired.
C29_ConcurrentGetNeverRaises ==
    world.kind = "race" =>
        \A i \in Threads : world.th[i].out \in {"none", "value", "absent", "stored"}

\* C30: in a unified search where both providers answered, an error raised
\* while one item is processed (an item or an entry whose title is null
\* when the titles are compared) takes no entry out of the result set, and
\* the valid items that follow are still processed: every Anime-Catalog
\* item is in the result set, and so is every allow-listed General-Title
\* item that has a title no entry of the Anime-Catalog shares.
C30_ItemErrorKeepsTheRest ==
    (/\ SearchHandled
     /\ world.token
     /\ world.jikan.outcome = "ok"
     /\ world.imdb.outcome = "ok") =>
        /\ resp.status = 200
        /\ IdsOf(EntriesOf(resp.results, "Jikan")) = MalIdsOf(world.jikan.items)
        /\ \A i \in DOMAIN AllowListed(world.imdb.items) :
              LET item == AllowListed(world.imdb.items)[i]
                  twin == \E n \in DOMAIN world.jikan.items :
                              LET t == PyOr(world.jikan.items[n].title_english,
                                            world.jikan.items[n].title)
                              IN  t # None /\ Lower(t[1]) = Lower(item.title[1])
              IN  (item.title # None /\ ~twin) =>
                      \E n \in DOMAIN resp.results :
                          /\ resp.results[n].source = "IMDbAPI"
                          /\ resp.results[n].id = item.id

=============================================================================
